---- MODULE Spec2Model ----
(***************************************************************************)
(* Model of the sandbox host: the call-state stack (m_level, m_states,     *)
(* m_current_state), the capability scope of each call level (scoped       *)
(* variants and scoped objects) and the system-call handlers that act on   *)
(* the scope of the current level.                                         *)
(*                                                                         *)
(* The guest program is untrusted: while a guest call runs, the guest may  *)
(* issue any system call with any argument.  The host object graph is      *)
(* opaque: what a host lookup returns is a nondeterministic input.         *)
(***************************************************************************)
EXTENDS Integers, Sequences, FiniteSets, TLC

(* ---------------------------------------------------------------------- *)
(* Program constants                                                       *)
(* ---------------------------------------------------------------------- *)
MAX_INSTRUCTIONS == 16
MAX_VMEM == 16
MAX_LEVEL == 8

(* ---------------------------------------------------------------------- *)
(* Bounds of the model                                                     *)
(* ---------------------------------------------------------------------- *)
\* host object addresses are 1..NumAddr; 0 is the null address
NumAddr == 2
\* the configured maximum reference-table size (m_max_refs)
MaxRefs == 2
\* cap on the calls-made counter where calls do not nest
MaxCalls == 1
\* cap on the number of scope entries (owned values and admitted objects)
\* that the guest creates over all the call levels 1..MAX_LEVEL
MaxTotal == 2

VARIABLES
    m_level,          \* the level the next guest call will use (1 at rest)
    m_current_state,  \* index in m_states of the current call state
    m_states,         \* the state stack, index 0 is the permanent state
    m_tree_base,      \* address of the tree base node, 0 if none
    m_calls_made,     \* statistics: calls made
    pc,               \* "host": no guest call runs; "guest": the guest code
                      \* of the current level runs; "vcall_ret": a nested
                      \* call has come back into api_vcall
    frames,           \* one frame per active vmcall_internal invocation
    last,             \* outcome of the last handler that ran
    m_max_refs,       \* configuration: maximum reference-table size
    m_memory_max,     \* configuration: maximum guest memory
    m_insn_max,       \* configuration: the instruction ceiling of a call
    insn,             \* the machine's instruction counter of the running call
    heap,             \* bytes of the guest heap in use (get_heap_usage)
    m_budget_overruns,         \* statistics: calls that exceeded the budget
    m_exceptions,              \* statistics: calls that raised an error
    m_global_calls_made,       \* process-wide sum of the calls made
    m_global_exceptions,       \* process-wide sum of the exceptions
    m_global_budget_overruns,  \* process-wide sum of the budget overruns
    sandboxes,        \* the statistics of each of several Sandbox instances
    threads,          \* the thread that runs the calls of each instance
    profiling_mutex,           \* the thread that holds the mutex, 0 if free
    generate_hotspots_mutex,   \* the thread that holds the mutex, 0 if free
    m_profiling_data,          \* the shared profiling data, or none
    m_local_profiling_data,    \* the profiling data of the instance, or none
    profilers         \* the threads that call the profiling functions

\* the call-state stack, the scopes and the outcome of the last handler
core == <<m_level, m_current_state, m_states, m_tree_base, m_calls_made,
          pc, frames, last>>
\* the resource configuration
config == <<m_max_refs, m_memory_max, m_insn_max>>
\* the budget and the statistics
stats == <<insn, heap, m_budget_overruns, m_exceptions, m_global_calls_made,
           m_global_exceptions, m_global_budget_overruns>>
\* several instances on several threads
multi == <<sandboxes, threads>>
\* the profiling data and its locks
profiling == <<profiling_mutex, generate_hotspots_mutex, m_profiling_data,
               m_local_profiling_data, profilers>>

vars == <<core, config, stats, multi, profiling>>

Addr == 1..NumAddr
NullAddr == 0
Levels == 0..MAX_LEVEL

(* ---------------------------------------------------------------------- *)
(* Host values (Variant) and guest values (GuestVariant)                   *)
(* ---------------------------------------------------------------------- *)
\* A String is a sequence of code points.
NilV == [type |-> "NIL", val |-> <<>>]
IntV(n) == [type |-> "INT", val |-> <<n>>]
StrV(s) == [type |-> "STRING", val |-> s]
ObjV(a) == [type |-> "OBJECT", val |-> <<a>>]
\* a boolean; a float and a 2D or 3D vector with their payload as it is
BoolV(b) == [type |-> "BOOL", val |-> <<b>>]
FloatV(f) == [type |-> "FLOAT", val |-> <<f>>]
Vector2V(xy) == [type |-> "VECTOR2", val |-> xy]
Vector3V(xyz) == [type |-> "VECTOR3", val |-> xyz]
\* the kinds whose payload is stored in the GuestVariant as it is
Payloads == {"FLOAT", "VECTOR2", "VECTOR3"}
\* a Callable that calls the guest function at address f of this sandbox
CallableV(f) == [type |-> "CALLABLE", val |-> <<f>>]

\* a tagged value in guest memory: inline payload, scope index or address
GV(t, i) == [type |-> t, v |-> i]

RefKinds == {"STRING", "ARRAY", "DICTIONARY", "CALLABLE"}

(* ---------------------------------------------------------------------- *)
(* CurrentState: the capability scope of one call level                    *)
(* ---------------------------------------------------------------------- *)
EmptyState == [variants |-> <<>>, scoped_variants |-> <<>>, scoped_objects |-> <<>>]

\* a reset that forgets to clear the scoped variants
reset_keeps_variants(s, max_refs) ==
    [s EXCEPT !.scoped_objects = <<>>]

\* a reset that forgets to clear the scoped objects
reset_keeps_objects(s, max_refs) ==
    [s EXCEPT !.variants = <<>>, !.scoped_variants = <<>>]

\* CurrentState::reset
reset(s, max_refs) ==
    [s EXCEPT !.variants = <<>>, !.scoped_variants = <<>>, !.scoped_objects = <<>>]

\* an entry of scoped_variants: a pointer into the level's own variants
\* (own) or to a Variant that the host caller holds (the arguments of a call)
OwnPtr(i) == [own |-> TRUE, at |-> i, var |-> NilV]
WeakPtr(v) == [own |-> FALSE, at |-> 0, var |-> v]
Deref(s, p) == IF p.own THEN s.variants[p.at] ELSE p.var

\* an is_scoped_object that scans the lists of all levels
is_scoped_object_all_levels(s, ptr) ==
    \E l \in DOMAIN m_states :
       \E i \in 1..Len(m_states[l].scoped_objects) : m_states[l].scoped_objects[i] = ptr

\* Sandbox::is_scoped_object: linear scan of the current state's list
is_scoped_object(s, ptr) ==
    \E i \in 1..Len(s.scoped_objects) : s.scoped_objects[i] = ptr

\* Sandbox::rem_scoped_object: erase-remove of every occurrence
rem_scoped_object(s, ptr) ==
    [s EXCEPT !.scoped_objects = SelectSeq(@, LAMBDA x : x # ptr)]

\* Sandbox::add_scoped_object (admit_object)
add_scoped_object(s, ptr) ==
    [s EXCEPT !.scoped_objects = Append(@, ptr)]

\* Sandbox::get_scoped_variant (get): the value if the handle is within range
\* for the current level, else an empty optional
get_scoped_variant(s, idx) ==
    IF idx >= 0 /\ idx < Len(s.scoped_variants)
    THEN [has |-> TRUE, var |-> Deref(s, s.scoped_variants[idx + 1])]
    ELSE [has |-> FALSE, var |-> NilV]

\* a create_scoped_variant that puts the new entry in front of the others
create_scoped_variant_front(s, var, max_refs) ==
    IF Len(s.scoped_variants) >= max_refs
    THEN [st |-> s, idx |-> 0, err |-> "MaxRefs"]
    ELSE [st |-> [s EXCEPT !.variants = Append(@, var),
                           !.scoped_variants = <<OwnPtr(Len(s.variants) + 1)>> \o @],
          idx |-> 0, err |-> "none"]

\* a create_scoped_variant without the reference limit
create_scoped_variant_unlimited(s, var, max_refs) ==
    [st |-> [s EXCEPT !.variants = Append(@, var),
                      !.scoped_variants = Append(@, OwnPtr(Len(s.variants) + 1))],
     idx |-> Len(s.scoped_variants), err |-> "none"]

\* Sandbox::create_scoped_variant (add_owned): handles are indices, creation order
create_scoped_variant(s, var, max_refs) ==
    IF Len(s.scoped_variants) >= max_refs
    THEN [st |-> s, idx |-> 0, err |-> "MaxRefs"]
    ELSE [st |-> [s EXCEPT !.variants = Append(@, var),
                           !.scoped_variants = Append(@, OwnPtr(Len(s.variants) + 1))],
          idx |-> Len(s.scoped_variants), err |-> "none"]

\* Sandbox::add_scoped_variant (add_weak): a non-owning reference
add_scoped_variant(s, var, max_refs) ==
    IF Len(s.scoped_variants) >= max_refs
    THEN [st |-> s, idx |-> 0, err |-> "MaxRefs"]
    ELSE [st |-> [s EXCEPT !.scoped_variants = Append(@, WeakPtr(var))],
          idx |-> Len(s.scoped_variants), err |-> "none"]

(* ---------------------------------------------------------------------- *)
(* Variant codec (GuestVariant)                                            *)
(* ---------------------------------------------------------------------- *)
\* a decode that takes the payload 0 of a boolean for true
toVariant_zero_true(s, gv) ==
    IF gv.type \in RefKinds
    THEN LET opt == get_scoped_variant(s, gv.v)
         IN  IF opt.has THEN [err |-> "none", var |-> opt.var]
             ELSE [err |-> "InvalidHandle", var |-> NilV]
    ELSE IF gv.type = "OBJECT"
    THEN IF gv.v = NullAddr THEN [err |-> "ObjectNull", var |-> NilV]
         ELSE IF is_scoped_object(s, gv.v) THEN [err |-> "none", var |-> ObjV(gv.v)]
         ELSE [err |-> "ObjectNotScoped", var |-> NilV]
    ELSE IF gv.type = "INT" THEN [err |-> "none", var |-> IntV(gv.v)]
    ELSE IF gv.type = "BOOL" THEN [err |-> "none", var |-> BoolV(gv.v = 0)]
    ELSE IF gv.type \in Payloads THEN [err |-> "none", var |-> [type |-> gv.type, val |-> gv.v]]
    ELSE [err |-> "none", var |-> NilV]

\* GuestVariant::toVariant (decode): primitives are inline, a reference kind
\* is a handle of the current scope, an object is an address that must be
\* admitted
toVariant(s, gv) ==
    IF gv.type \in RefKinds
    THEN LET opt == get_scoped_variant(s, gv.v)
         IN  IF opt.has THEN [err |-> "none", var |-> opt.var]
             ELSE [err |-> "InvalidHandle", var |-> NilV]
    ELSE IF gv.type = "OBJECT"
    THEN IF gv.v = NullAddr THEN [err |-> "ObjectNull", var |-> NilV]
         ELSE IF is_scoped_object(s, gv.v) THEN [err |-> "none", var |-> ObjV(gv.v)]
         ELSE [err |-> "ObjectNotScoped", var |-> NilV]
    ELSE IF gv.type = "INT" THEN [err |-> "none", var |-> IntV(gv.v)]
    ELSE IF gv.type = "BOOL" THEN [err |-> "none", var |-> BoolV(gv.v # 0)]
    ELSE IF gv.type \in Payloads THEN [err |-> "none", var |-> [type |-> gv.type, val |-> gv.v]]
    ELSE [err |-> "none", var |-> NilV]

\* GuestVariant::toVariantPtr: the scoped Variant a reference kind designates
toVariantPtr(s, gv) ==
    LET opt == get_scoped_variant(s, gv.v)
    IN  IF opt.has THEN [err |-> "none", var |-> opt.var]
        ELSE [err |-> "InvalidHandle", var |-> NilV]

\* GuestVariant::create (encode): a reference kind becomes an owned entry of
\* the scope, an object is admitted, a primitive is stored inline
create(s, var, max_refs) ==
    IF var.type \in RefKinds
    THEN LET c == create_scoped_variant(s, var, max_refs)
         IN  [st |-> c.st, err |-> c.err, gv |-> GV(var.type, c.idx)]
    ELSE IF var.type = "OBJECT"
    THEN IF var.val[1] = NullAddr THEN [st |-> s, err |-> "none", gv |-> GV("NIL", 0)]
         ELSE [st |-> add_scoped_object(s, var.val[1]), err |-> "none",
               gv |-> GV("OBJECT", var.val[1])]
    ELSE IF var.type = "INT" THEN [st |-> s, err |-> "none", gv |-> GV("INT", var.val[1])]
    ELSE IF var.type = "BOOL"
    THEN [st |-> s, err |-> "none", gv |-> GV("BOOL", IF var.val[1] THEN 1 ELSE 0)]
    ELSE IF var.type \in Payloads THEN [st |-> s, err |-> "none", gv |-> GV(var.type, var.val)]
    ELSE [st |-> s, err |-> "none", gv |-> GV("NIL", 0)]

\* the non-null object address a guest value carries, as a set
ObjsOf(gv) == IF gv.type = "OBJECT" /\ gv.v # NullAddr THEN {gv.v} ELSE {}

(* ---------------------------------------------------------------------- *)
(* Results of a handler                                                    *)
(* ---------------------------------------------------------------------- *)
\* st: the scope after the handler; err: the error raised ("none" if none);
\* res: the integer handed back to the guest (-1 if none); hnds: the scope
\* handles handed back; objs: the non-null object addresses handed back;
\* touched: the addresses on which a host-object operation was performed
R(st, err, res, hnds, objs, touched) ==
    [st |-> st, err |-> err, res |-> res, hnds |-> hnds, objs |-> objs,
     touched |-> touched]
Fail(s, err) == R(s, err, -1, {}, {}, {})
\* the handle a guest value carries, as a set
HndsOf(gv) == IF gv.type \in RefKinds THEN {gv.v} ELSE {}

\* get_object_from_address and get_node_from_address
get_object_from_address(s, addr) ==
    IF addr = NullAddr THEN "ObjectNull"
    ELSE IF ~is_scoped_object(s, addr) THEN "ObjectNotScoped"
    ELSE "none"

(* ---------------------------------------------------------------------- *)
(* System-call handlers: scope of the current level -> result              *)
(* ---------------------------------------------------------------------- *)
allowed_objects == {"Engine", "Input", "Time"}

\* an api_string_create that hands back the size of the table, not the index
api_string_create_size(s, strview, max_refs) ==
    LET c == create_scoped_variant(s, StrV(strview), max_refs)
    IN  IF c.err # "none" THEN Fail(s, c.err)
        ELSE R(c.st, "none", c.idx + 1, {c.idx + 1}, {}, {})

\* api_string_create
api_string_create(s, strview, max_refs) ==
    LET c == create_scoped_variant(s, StrV(strview), max_refs)
    IN  IF c.err # "none" THEN Fail(s, c.err)
        ELSE R(c.st, "none", c.idx, {c.idx}, {}, {})

\* api_string_size
api_string_size(s, str_idx) ==
    LET opt_str == get_scoped_variant(s, str_idx)
    IN  IF ~opt_str.has \/ opt_str.var.type # "STRING"
        THEN Fail(s, "InvalidStringObject")
        ELSE R(s, "none", Len(opt_str.var.val), {}, {}, {})

\* an api_get_obj that hands out an object for every name
api_get_obj_any(s, name, tree_base, obj, tree) ==
    R(add_scoped_object(s, obj), "none", obj, {}, {obj} \ {NullAddr}, {})

\* api_get_obj; obj is the address the allow list's entry yields, tree the
\* result of owner_node->get_tree()
api_get_obj(s, name, tree_base, obj, tree) ==
    IF name \in allowed_objects
    THEN R(add_scoped_object(s, obj), "none", obj, {}, {obj} \ {NullAddr}, {})
    ELSE IF name = "SceneTree"
    THEN IF tree_base = NullAddr THEN R(s, "none", 0, {}, {}, {})
         ELSE R(add_scoped_object(s, tree), "none", tree, {}, {tree} \ {NullAddr},
                {tree_base})
    ELSE R(s, "none", 0, {}, {}, {})

\* api_throw
api_throw(s) == Fail(s, "SandboxException")

\* the decoded arguments of a call, in order, or the first decoding error
RECURSIVE DecodeArgs(_, _)
DecodeArgs(s, args) ==
    IF args = <<>> THEN [err |-> "none", vars |-> <<>>]
    ELSE LET d == toVariant(s, Head(args))
             rest == DecodeArgs(s, Tail(args))
         IN  IF d.err # "none" THEN [err |-> d.err, vars |-> <<>>]
             ELSE IF rest.err # "none" THEN rest
             ELSE [err |-> "none", vars |-> <<d.var>> \o rest.vars]

\* TRUE if the Variant is a Callable that calls a function of this sandbox
IsGuestCallable(var) == var.type = "CALLABLE"

\* api_vcall up to the host call: the error it raises before calling, or
\* "none" with the decoded call target and arguments
api_vcall_prepare(s, vp, args_size, args) ==
    IF args_size > 8 THEN [err |-> "TooManyArguments", target |-> NilV, vars |-> <<>>]
    ELSE IF vp.type = "CALLABLE"
    THEN LET d == DecodeArgs(s, args)
             vcall == toVariantPtr(s, vp)
         IN  IF d.err # "none" THEN [err |-> d.err, target |-> NilV, vars |-> <<>>]
             ELSE IF vcall.err # "none" THEN [err |-> vcall.err, target |-> NilV, vars |-> <<>>]
             ELSE [err |-> "none", target |-> vcall.var, vars |-> d.vars]
    ELSE IF vp.type = "OBJECT"
    THEN LET e == get_object_from_address(s, vp.v)
             d == DecodeArgs(s, args)
         IN  IF e # "none" THEN [err |-> e, target |-> NilV, vars |-> <<>>]
             ELSE IF d.err # "none" THEN [err |-> d.err, target |-> NilV, vars |-> <<>>]
             ELSE [err |-> "none", target |-> ObjV(vp.v), vars |-> d.vars]
    ELSE [err |-> "InvalidVariantType", target |-> NilV, vars |-> <<>>]

\* api_vcall after the host call came back with ret: vret->create(emu, ret)
api_vcall_finish(s, ret, touched, max_refs) ==
    LET c == create(s, ret, max_refs)
    IN  IF c.err # "none" THEN R(s, c.err, -1, {}, {}, touched)
        ELSE R(c.st, "none", c.gv.v, HndsOf(c.gv), ObjsOf(c.gv), touched)

\* api_vcall when the host call does not come back into the guest; ret is
\* what the host call returns
api_vcall(s, vp, args_size, args, ret, max_refs) ==
    LET p == api_vcall_prepare(s, vp, args_size, args)
    IN  IF p.err # "none" THEN Fail(s, p.err)
        ELSE api_vcall_finish(s, ret,
                 IF p.target.type = "OBJECT" THEN {p.target.val[1]} ELSE {}, max_refs)

(* ---------------------------------------------------------------------- *)
(* System-call handlers on host objects and nodes                          *)
(* ---------------------------------------------------------------------- *)
\* a get_node_from_address that does not look at the scope
get_node_from_address_unchecked(s, addr) ==
    IF addr = NullAddr THEN "NodeObjectNull" ELSE "none"

\* get_node_from_address
get_node_from_address(s, addr) ==
    IF addr = NullAddr THEN "NodeObjectNull"
    ELSE IF ~is_scoped_object(s, addr) THEN "NodeObjectNotScoped"
    ELSE "none"

\* GuestVariant::set (encode with a trust level): an object the engine hands
\* back is admitted as part of the encoding, an object from the guest must be
\* admitted already; every other kind as create
set(s, var, implicit_trust, max_refs) ==
    IF var.type = "OBJECT" /\ var.val[1] # NullAddr
    THEN IF ~implicit_trust /\ ~is_scoped_object(s, var.val[1])
         THEN [st |-> s, err |-> "ObjectNotScoped", gv |-> GV("NIL", 0)]
         ELSE [st |-> add_scoped_object(s, var.val[1]), err |-> "none",
               gv |-> GV("OBJECT", var.val[1])]
    ELSE create(s, var, max_refs)

\* the result of a handler that wrote the encoded value c back to the guest
Written(s, c, touched) ==
    IF c.err # "none" THEN R(s, c.err, -1, {}, {}, touched)
    ELSE R(c.st, "none", c.gv.v, HndsOf(c.gv), ObjsOf(c.gv), touched)

\* Sandbox::get_mutable_scoped_variant (get_mutable): as get, but a handle
\* that is out of range breaks its precondition; oob is what happens then,
\* an error ("throws") or a reference to memory outside the scope ("wild")
get_mutable_scoped_variant(s, idx, oob) ==
    LET opt == get_scoped_variant(s, idx)
    IN  IF opt.has THEN [err |-> "none", has |-> TRUE, var |-> opt.var]
        ELSE IF oob = "throws" THEN [err |-> "InvalidHandle", has |-> FALSE, var |-> NilV]
        ELSE [err |-> "none", has |-> FALSE, var |-> NilV]

\* the decimal digits of a natural number, as code points
RECURSIVE Digits(_)
Digits(n) == IF n < 10 THEN <<48 + n>> ELSE Digits(n \div 10) \o <<48 + (n % 10)>>

\* Variant::operator String(): a String is itself, every other kind is
\* converted to a text ("<null>", the digits of an integer, the engine's
\* text for a Callable or an Object)
OperatorString(var) ==
    IF var.type = "STRING" THEN var.val
    ELSE IF var.type = "NIL" THEN <<60, 110, 117, 108, 108, 62>>
    ELSE IF var.type = "INT" THEN Digits(var.val[1])
    ELSE IF var.type = "CALLABLE" THEN <<67>>
    ELSE <<79>>

\* assignment through the reference get_mutable_scoped_variant returned
AssignVariant(s, idx, var) ==
    LET p == s.scoped_variants[idx + 1]
    IN  IF p.own THEN [s EXCEPT !.variants[p.at] = var]
        ELSE [s EXCEPT !.scoped_variants[idx + 1] = WeakPtr(var)]

\* api_string_append: no check of the handle and none of the kind
api_string_append(s, str_idx, strview, oob) ==
    LET m == get_mutable_scoped_variant(s, str_idx, oob)
    IN  IF m.err # "none" THEN Fail(s, m.err)
        ELSE IF ~m.has THEN R(s, "none", -1, {}, {}, {})
        ELSE R(AssignVariant(s, str_idx, StrV(OperatorString(m.var) \o strview)),
               "none", -1, {}, {}, {})

\* api_obj; gvar is the guest's array of values, ret what the engine's
\* obj->get(name) yields
api_obj(s, op, addr, gvar, ret, max_refs) ==
    IF ~is_scoped_object(s, addr) THEN Fail(s, "ObjectNotScoped")
    ELSE IF op \in {"GET_METHOD_LIST", "GET_PROPERTY_LIST", "GET_SIGNAL_LIST"}
    THEN R(s, "none", -1, {}, {}, {addr})
    ELSE IF op = "GET"
    THEN LET name == toVariant(s, gvar[1])
         IN  IF name.err # "none" THEN Fail(s, name.err)
             ELSE Written(s, create(s, ret, max_refs), {addr})
    ELSE IF op = "SET"
    THEN LET name == toVariant(s, gvar[1])
             value == toVariant(s, gvar[2])
         IN  IF name.err # "none" THEN Fail(s, name.err)
             ELSE IF value.err # "none" THEN Fail(s, value.err)
             ELSE R(s, "none", -1, {}, {}, {addr})
    ELSE IF op \in {"CONNECT", "DISCONNECT"}
    THEN LET target == get_object_from_address(s, gvar[1].v)
             method == toVariant(s, gvar[3])
             signal == toVariant(s, gvar[2])
         IN  IF target # "none" THEN Fail(s, target)
             ELSE IF method.err # "none" THEN Fail(s, method.err)
             ELSE IF signal.err # "none" THEN Fail(s, signal.err)
             ELSE R(s, "none", -1, {}, {}, {addr, gvar[1].v})
    ELSE Fail(s, "InvalidObjectOperation")

\* api_obj_callp; ret is what the engine's obj->callv yields
api_obj_callp(s, addr, deferred, vret_ptr, args_size, args, ret, max_refs) ==
    IF ~is_scoped_object(s, addr) THEN Fail(s, "ObjectNotScoped")
    ELSE IF args_size > 8 THEN Fail(s, "TooManyArguments")
    ELSE LET d == DecodeArgs(s, args)
         IN  IF d.err # "none" THEN Fail(s, d.err)
             ELSE IF ~deferred /\ vret_ptr # 0
             THEN Written(s, create(s, ret, max_refs), {addr})
             ELSE R(s, "none", -1, {}, {}, {addr})

\* an api_get_node that does not compare the tree base with nullptr
api_get_node_null_base(s, addr, tree_base, node) ==
    LET base == IF addr = 0 THEN tree_base ELSE addr
    IN  IF addr # 0 /\ ~is_scoped_object(s, addr) THEN R(s, "none", 0, {}, {}, {})
        ELSE IF node = NullAddr THEN R(s, "none", 0, {}, {}, {base})
        ELSE R(add_scoped_object(s, node), "none", node, {}, {node}, {base})

\* an api_get_node that hands the node back without admitting it
api_get_node_no_admit(s, addr, tree_base, node) ==
    LET base == IF addr = 0 THEN tree_base ELSE addr
    IN  IF addr = 0 /\ tree_base = NullAddr THEN R(s, "none", 0, {}, {}, {})
        ELSE IF addr # 0 /\ ~is_scoped_object(s, addr) THEN R(s, "none", 0, {}, {}, {})
        ELSE IF node = NullAddr THEN R(s, "none", 0, {}, {}, {base})
        ELSE R(s, "none", node, {}, {node}, {base})

\* api_get_node; node is what get_node<Node>(path) of the base yields. A base
\* that is not admitted sets the result 0 and returns: no error is raised
api_get_node(s, addr, tree_base, node) ==
    LET base == IF addr = 0 THEN tree_base ELSE addr
    IN  IF addr = 0 /\ tree_base = NullAddr THEN R(s, "none", 0, {}, {}, {})
        ELSE IF addr # 0 /\ ~is_scoped_object(s, addr) THEN R(s, "none", 0, {}, {}, {})
        ELSE IF node = NullAddr THEN R(s, "none", 0, {}, {}, {base})
        ELSE R(add_scoped_object(s, node), "none", node, {}, {node}, {base})

\* api_node_create; obj is what ClassDB::instantiate or memnew yields, is_node
\* whether the cast to Node succeeds
api_node_create(s, type, terminated, obj, is_node, name_empty) ==
    LET node == IF type = "CREATE_CLASSDB" /\ ~is_node THEN NullAddr ELSE obj
        named == IF node = NullAddr THEN Fail(s, "FailedToCreateNode")
                 ELSE R(add_scoped_object(s, node), "none", node, {}, {node},
                        IF name_empty THEN {} ELSE {node})
    IN  IF type = "CREATE_CLASSDB"
        THEN IF ~terminated THEN Fail(s, "ClassNameNotTerminated")
             ELSE IF node = NullAddr
             THEN R(add_scoped_object(s, obj), "none", obj, {}, {obj} \ {NullAddr}, {})
             ELSE named
        ELSE IF type \in {"CREATE_NODE", "CREATE_NODE2D", "CREATE_NODE3D"} THEN named
        ELSE Fail(s, "UnknownNodeType")

\* the scope after every non-null node of the list has been admitted, in order
RECURSIVE AdmitChildren(_, _)
AdmitChildren(s, children) ==
    IF children = <<>> THEN s
    ELSE AdmitChildren(IF Head(children) # NullAddr
                       THEN add_scoped_object(s, Head(children)) ELSE s,
                       Tail(children))

Node_Op_Child ==
    {"ADD_CHILD", "ADD_CHILD_DEFERRED", "ADD_SIBLING", "ADD_SIBLING_DEFERRED",
     "MOVE_CHILD", "REMOVE_CHILD", "REMOVE_CHILD_DEFERRED"}

\* Node_Op::QUEUE_FREE without the comparison with the sandbox
queue_free_unguarded(s, addr, is_self) == R(s, "none", -1, {}, {}, {addr})

\* Node_Op::QUEUE_FREE with the call of rem_scoped_object that the source has
\* commented out
queue_free_revokes(s, addr, is_self) ==
    IF is_self THEN Fail(s, "CannotQueueFreeSandbox")
    ELSE R(rem_scoped_object(s, addr), "none", -1, {}, {}, {addr})

\* Node_Op::QUEUE_FREE: node == &emu throws, any other node is queued
queue_free(s, addr, is_self) ==
    IF is_self THEN Fail(s, "CannotQueueFreeSandbox")
    ELSE R(s, "none", -1, {}, {}, {addr})

\* api_node; is_self: the node is the sandbox itself; other: the node the
\* engine yields (parent, duplicate, child); children: the engine's list of
\* children, 0 for one that is not a Node
api_node(s, op, addr, gvar, is_self, other, children, max_refs) ==
    LET node == get_node_from_address(s, addr)
    IN  IF node # "none" THEN Fail(s, node)
        ELSE IF op \in {"GET_NAME", "GET_PATH"}
        THEN Written(s, create(s, StrV(<<97>>), max_refs), {addr})
        ELSE IF op = "SET_NAME"
        THEN LET d == toVariant(s, gvar[1])
             IN  IF d.err # "none" THEN Fail(s, d.err)
                 ELSE R(s, "none", -1, {}, {}, {addr})
        ELSE IF op = "GET_PARENT"
        THEN IF other = NullAddr THEN Written(s, set(s, NilV, FALSE, max_refs), {addr})
             ELSE Written(s, set(s, ObjV(other), TRUE, max_refs), {addr})
        ELSE IF op = "QUEUE_FREE"
        THEN queue_free(s, addr, is_self)
        ELSE IF op = "DUPLICATE"
        THEN Written(s, set(add_scoped_object(s, other), ObjV(other), TRUE, max_refs),
                     {addr})
        ELSE IF op = "GET_CHILD_COUNT"
        THEN Written(s, set(s, IntV(Len(children)), FALSE, max_refs), {addr})
        ELSE IF op = "GET_CHILD"
        THEN IF other = NullAddr THEN Written(s, set(s, NilV, FALSE, max_refs), {addr})
             ELSE R(add_scoped_object(s, other), "none", other, {}, {other}, {addr})
        ELSE IF op \in Node_Op_Child
        THEN LET child_node == get_node_from_address(s, gvar[1].v)
             IN  IF child_node # "none" THEN Fail(s, child_node)
                 ELSE R(s, "none", -1, {}, {}, {addr, gvar[1].v})
        ELSE IF op = "GET_CHILDREN"
        THEN R(AdmitChildren(s, children), "none", -1, {},
               {children[i] : i \in 1..Len(children)} \ {NullAddr}, {addr})
        ELSE Fail(s, "InvalidNodeOperation")

Spatial_Op_Get == {"GET_POSITION", "GET_ROTATION", "GET_SCALE", "GET_SKEW"}
Spatial_Op_Set == {"SET_POSITION", "SET_ROTATION", "SET_SCALE", "SET_SKEW"}

\* api_node2d; is_node2d is whether the cast to Node2D succeeds
api_node2d(s, op, addr, gvar, is_node2d) ==
    LET node == get_node_from_address(s, addr)
    IN  IF node # "none" THEN Fail(s, node)
        ELSE IF ~is_node2d THEN Fail(s, "NotANode2D")
        ELSE IF op \in Spatial_Op_Get THEN R(s, "none", -1, {}, {}, {addr})
        ELSE IF op \in Spatial_Op_Set
        THEN LET d == toVariant(s, gvar)
             IN  IF d.err # "none" THEN Fail(s, d.err)
                 ELSE R(s, "none", -1, {}, {}, {addr})
        ELSE Fail(s, "InvalidNode2DOperation")

\* api_node3d; is_node3d is whether the cast to Node3D succeeds. Node3D has
\* no skew
api_node3d(s, op, addr, gvar, is_node3d) ==
    LET node == get_node_from_address(s, addr)
    IN  IF node # "none" THEN Fail(s, node)
        ELSE IF ~is_node3d THEN Fail(s, "NotANode3D")
        ELSE IF op \in Spatial_Op_Get \ {"GET_SKEW"} THEN R(s, "none", -1, {}, {}, {addr})
        ELSE IF op \in Spatial_Op_Set \ {"SET_SKEW"}
        THEN LET d == toVariant(s, gvar)
             IN  IF d.err # "none" THEN Fail(s, d.err)
                 ELSE R(s, "none", -1, {}, {}, {addr})
        ELSE Fail(s, "InvalidNode3DOperation")

\* api_timer_periodic; timer is the Timer node memnew yields. The timer is
\* handed back with set(emu, timer, true)
api_timer_periodic(s, tree_base, timer, max_refs) ==
    Written(s, set(s, ObjV(timer), TRUE, max_refs),
            IF tree_base # NullAddr THEN {tree_base, timer} ELSE {timer})

(* ---------------------------------------------------------------------- *)
(* Call-state stack                                                        *)
(* ---------------------------------------------------------------------- *)


\* the number of entries of m_states
m_states_size == MAX_LEVEL + 1

\* m_level initialised to 0
m_level_init_zero == 1 - 1

\* the initial value of m_level
m_level_init == 1

\* the call depth: the index of the level in use.  m_level is 1 at rest
\* ("0 is for initialization"): the permanent level 0 is then current.
Depth == m_level - 1

CS == [level |-> m_level, cur |-> m_current_state, states |-> m_states]
SetCS(cs) ==
    /\ m_level' = cs.level
    /\ m_current_state' = cs.cur
    /\ m_states' = cs.states

\* an enter() that resets the scope it is in before it checks the depth
enter_resets_first(cs, max_refs) ==
    IF cs.level > MAX_LEVEL
    THEN [ok |-> FALSE,
          cs |-> [cs EXCEPT !.states[cs.cur] = reset(@, max_refs)]]
    ELSE [ok |-> TRUE,
          cs |-> [level |-> cs.level + 1, cur |-> cs.level,
                  states |-> [cs.states EXCEPT ![cs.level] = reset(@, max_refs)]]]

\* enter(): the depth check comes first; on failure nothing is changed.
\* On success the scope of the new level is reset and becomes current.
enter(cs, max_refs) ==
    IF cs.level > MAX_LEVEL
    THEN [ok |-> FALSE, cs |-> cs]
    ELSE [ok |-> TRUE,
          cs |-> [level |-> cs.level + 1, cur |-> cs.level,
                  states |-> [cs.states EXCEPT ![cs.level] = reset(@, max_refs)]]]

\* a leave() that clears the scope of the caller as well
leave_clears_caller(cs, max_refs) ==
    [level |-> cs.level - 1, cur |-> cs.level - 2,
     states |-> [cs.states EXCEPT ![cs.level - 1] = reset(@, max_refs),
                                  ![cs.level - 2] = reset(@, max_refs)]]

\* leave(): the scope of the current depth is cleared, the depth decremented
leave(cs, max_refs) ==
    [level |-> cs.level - 1, cur |-> cs.level - 2,
     states |-> [cs.states EXCEPT ![cs.level - 1] = reset(@, max_refs)]]

\* setup_arguments: a reference-kind argument is encoded as a handle of the
\* new level's scope that refers to the caller's Variant, an object argument
\* is admitted, a primitive is passed inline
RECURSIVE setup_arguments(_, _, _)
setup_arguments(s, args, max_refs) ==
    IF args = <<>> THEN [st |-> s, err |-> "none"]
    ELSE LET a == Head(args)
             one == IF a.type \in RefKinds THEN add_scoped_variant(s, a, max_refs)
                    ELSE IF a.type = "OBJECT" /\ a.val[1] # NullAddr
                    THEN [st |-> add_scoped_object(s, a.val[1]), idx |-> 0, err |-> "none"]
                    ELSE [st |-> s, idx |-> 0, err |-> "none"]
         IN  IF one.err # "none" THEN [st |-> s, err |-> one.err]
             ELSE setup_arguments(one.st, Tail(args), max_refs)

\* the scope a call starts with: nothing but the handles of its arguments
FreshState(args) == setup_arguments(EmptyState, args, m_max_refs).st

\* entries the guest has created in the levels 1..MAX_LEVEL
RECURSIVE EntriesFrom(_, _)
EntriesFrom(states, l) ==
    IF l > MAX_LEVEL THEN 0
    ELSE Len(states[l].variants) + Len(states[l].scoped_objects)
         + EntriesFrom(states, l + 1)
TotalEntries(states) == EntriesFrom(states, 1)
Entries(s) == Len(s.variants) + Len(s.scoped_objects)

(* ---------------------------------------------------------------------- *)
(* Outcome record                                                          *)
(* ---------------------------------------------------------------------- *)
\* the frame of one vmcall_internal invocation: the m_level it found, the
\* caller's scope as it found it, its arguments, and the handles and object
\* addresses the guest has been handed during the call
Frame(level, outer, args, hnds, objs) ==
    [level |-> level, outer |-> outer, args |-> args, hnds |-> hnds, objs |-> objs]
NoFrame == Frame(0, EmptyState, <<>>, {}, {})

\* op: the handler; err: the error raised; end: how the guest call ended in
\* this step ("" if it did not end); r: the handler's result (see R); raw:
\* the operation code, the raw object addresses and the handles the handler
\* received; ret: the Variant a
\* finished call hands to its host caller; frame: the frame of the call that
\* ended in this step or, when a call starts, of the call that ended in the
\* step before
Last(op, err, end, r, raw, ret, frame) ==
    [op |-> op, err |-> err, end |-> end, res |-> r.res, hnds |-> r.hnds,
     objs |-> r.objs, touched |-> r.touched, sub |-> raw.op, raw |-> raw.objs,
     hraw |-> raw.hnds,
     ret |-> ret, frame |-> frame]
NoR == Fail(EmptyState, "none")
\* what a handler received: raw object addresses and scope handles
Raw(op, objs, hnds) == [op |-> op, objs |-> objs, hnds |-> hnds]
NoRaw == Raw("", {}, {})

(* ---------------------------------------------------------------------- *)
(* Inputs                                                                  *)
(* ---------------------------------------------------------------------- *)
AddrOrNull == 0..NumAddr
Handles == 0..MaxRefs
\* the strings the guest creates
Strs == {<<97>>}
HostRets == {NilV, StrV(<<97>>), ObjV(1)}
\* the arguments a host caller passes to a guest function
HostArgs == {<<>>, <<CallableV(1)>>}
\* what a guest function returns
GuestRets == {GV("NIL", 0), GV("STRING", 0), GV("STRING", 1)}
\* cap on the calls-made counter that lets calls nest down to MAX_LEVEL and
\* fail once more
MaxCallsDeep == MAX_LEVEL + 2

\* the scope of level 0 after the program has run through main()
InitStates0 ==
    {EmptyState,
     add_scoped_object(create_scoped_variant(EmptyState, StrV(<<97>>), m_max_refs).st, 1)}

(* ---------------------------------------------------------------------- *)
(* Steps of the program                                                    *)
(* ---------------------------------------------------------------------- *)
\* the member initialisers of the resource configuration
InitConfig ==
    /\ m_max_refs = MaxRefs
    /\ m_memory_max = MAX_VMEM
    /\ m_insn_max = MAX_INSTRUCTIONS

\* the call-state stack after construction (needs m_max_refs)
InitCore ==
    /\ m_level = m_level_init
    /\ m_current_state = 0
    /\ \E s0 \in InitStates0 :
          m_states = [l \in 0..(m_states_size - 1) |-> IF l = 0 THEN s0 ELSE EmptyState]
    /\ m_tree_base = NullAddr
    /\ m_calls_made = 0
    /\ pc = "host"
    /\ frames = <<>>
    /\ last = Last("init", "none", "", NoR, NoRaw, NilV, NoFrame)

\* the statistics and the process-wide sums start at 0
InitStats ==
    /\ insn = 0
    /\ heap = 0
    /\ m_budget_overruns = 0
    /\ m_exceptions = 0
    /\ m_global_calls_made = 0
    /\ m_global_exceptions = 0
    /\ m_global_budget_overruns = 0

\* no further instance and no further thread
InitSingle ==
    /\ sandboxes = <<>>
    /\ threads = <<>>

\* profiling is off and no thread is in a profiling function
InitNoProfiling ==
    /\ profiling_mutex = 0
    /\ generate_hotspots_mutex = 0
    /\ m_profiling_data = [has |-> FALSE, visited |-> {}]
    /\ m_local_profiling_data = [has |-> FALSE, profiling_interval |-> 0]
    /\ profilers = <<>>

Init == InitConfig /\ InitCore /\ InitStats /\ InitSingle /\ InitNoProfiling

state == m_states[m_current_state]
TopFrame == frames[Len(frames)]

\* the catch of vmcall_internal: handle_exception or handle_timeout, then
\* leave(); the failed call hands an empty Variant to its caller
CallFails(op, err, end, r, raw) ==
    /\ SetCS(leave(CS, m_max_refs))
    /\ frames' = SubSeq(frames, 1, Len(frames) - 1)
    /\ pc' = IF Len(frames) = 1 THEN "host" ELSE "vcall_ret"
    /\ last' = Last(op, err, end, r, raw, NilV, TopFrame)
    /\ UNCHANGED <<m_tree_base, m_calls_made>>

\* a handler has run in the current call: its result is applied, or its
\* error unwinds to the call boundary
HandledUpTo(total, op, r, raw) ==
    IF r.err = "none"
    THEN /\ Entries(r.st) > Entries(state) => TotalEntries(m_states) < total
         /\ m_states' = [m_states EXCEPT ![m_current_state] = r.st]
         /\ pc' = "guest"
         /\ frames' = [frames EXCEPT ![Len(frames)].hnds = @ \cup r.hnds,
                                     ![Len(frames)].objs = @ \cup r.objs]
         /\ last' = Last(op, "none", "", r, raw, NilV, NoFrame)
         /\ UNCHANGED <<m_level, m_current_state, m_tree_base, m_calls_made>>
    ELSE CallFails(op, r.err, "exception", r, raw)

\* the same with the model's cap on the entries of all scopes
Handled(op, r, raw) == HandledUpTo(MaxTotal, op, r, raw)

\* vmcall_internal up to the start of the guest function: enter(), then the
\* arguments
vmcall_internal(args, cap) ==
    LET e == enter(CS, m_max_refs)
        a == setup_arguments(e.cs.states[e.cs.cur], args, m_max_refs)
    IN  /\ m_calls_made < cap
        /\ UNCHANGED m_tree_base
        /\ IF ~e.ok
           THEN /\ SetCS(e.cs)
                /\ last' = Last("vmcall", "StackOverflow", "", NoR, NoRaw, NilV, NoFrame)
                /\ UNCHANGED <<m_calls_made, frames, pc>>
           ELSE IF a.err # "none"
           THEN /\ SetCS(leave(e.cs, m_max_refs))
                /\ m_calls_made' = m_calls_made + 1
                /\ last' = Last("vmcall", a.err, "exception", NoR, NoRaw, NilV,
                                Frame(m_level, state, args, {}, {}))
                /\ UNCHANGED <<frames, pc>>
           ELSE /\ SetCS([e.cs EXCEPT !.states[e.cs.cur] = a.st])
                /\ m_calls_made' = m_calls_made + 1
                /\ frames' = Append(frames, Frame(m_level, state, args, {}, {}))
                /\ pc' = "guest"
                /\ last' = Last("vmcall", "none", "", NoR, NoRaw, NilV,
                                IF last.end # "" THEN last.frame ELSE NoFrame)

\* the host calls a guest function
VmCall(cap) ==
    /\ pc = "host"
    /\ \E args \in HostArgs : vmcall_internal(args, cap)

\* api_vcall on a Callable of this sandbox: the host call re-enters the guest
SysVcallReenter(targets, arglists, cap) ==
    /\ pc = "guest"
    /\ \E vp \in targets, args \in arglists :
          LET p == api_vcall_prepare(state, vp, Len(args), args)
          IN  /\ p.err = "none"
              /\ IsGuestCallable(p.target)
              /\ vmcall_internal(p.vars, cap)

\* api_vcall when the host call does not re-enter the guest
SysVcall(targets, arglists) ==
    /\ pc = "guest"
    /\ \E vp \in targets, args \in arglists :
          \E args_size \in (IF args = <<>> THEN {0, 9} ELSE {Len(args)}) :
             LET p == api_vcall_prepare(state, vp, args_size, args)
             IN  /\ p.err = "none" => ~IsGuestCallable(p.target)
                 /\ \E ret \in (IF p.err = "none" THEN HostRets ELSE {NilV}) :
                     Handled("api_vcall",
                            api_vcall(state, vp, args_size, args, ret, m_max_refs),
                            Raw(vp.type, IF vp.type = "OBJECT" THEN {vp.v} ELSE {}, {}))

\* the nested call has come back: api_vcall stores its return value
SysVcallFinish ==
    /\ pc = "vcall_ret"
    /\ Handled("api_vcall", api_vcall_finish(state, last.ret, {}, m_max_refs), NoRaw)

SysStringCreate ==
    /\ pc = "guest"
    /\ \E strview \in Strs :
          Handled("api_string_create", api_string_create(state, strview, m_max_refs), NoRaw)

SysStringSize ==
    /\ pc = "guest"
    /\ \E str_idx \in Handles :
          Handled("api_string_size", api_string_size(state, str_idx), Raw("", {}, {str_idx}))

SysGetObj(names, objs, trees) ==
    /\ pc = "guest"
    /\ \E name \in names, obj \in objs, tree \in trees :
          Handled("api_get_obj", api_get_obj(state, name, m_tree_base, obj, tree),
                  Raw(name, {}, {}))

SysThrow ==
    /\ pc = "guest"
    /\ Handled("api_throw", api_throw(state), NoRaw)

\* the guest function returns: the host decodes the returned value in the
\* scope of the call, then leaves the level
GuestReturn ==
    /\ pc = "guest"
    /\ \E retgv \in GuestRets :
          LET d == toVariant(state, retgv)
              cs == leave(CS, m_max_refs)
          IN  IF d.err # "none"
              THEN CallFails("return", d.err, "exception", Fail(state, d.err), NoRaw)
              ELSE /\ (Len(frames) > 1 /\ d.var.type \in RefKinds)
                          => TotalEntries(cs.states) < MaxTotal
                   /\ SetCS(cs)
                   /\ frames' = SubSeq(frames, 1, Len(frames) - 1)
                   /\ pc' = IF Len(frames) = 1 THEN "host" ELSE "vcall_ret"
                   /\ last' = Last("return", "none", "return", NoR, NoRaw, d.var, TopFrame)
                   /\ UNCHANGED <<m_tree_base, m_calls_made>>

\* the instruction budget runs out while the guest function executes
Timeout ==
    /\ pc = "guest"
    /\ CallFails("timeout", "Timeout", "timeout", Fail(state, "Timeout"), NoRaw)

(* ---------------------------------------------------------------------- *)
(* Specification of the call-state stack: calls nest down to MAX_LEVEL     *)
(* ---------------------------------------------------------------------- *)
\* the budget and the statistics are left out of this specification: they
\* are the subject of SpecBudget
aside == <<config, stats, multi, profiling>>

Next ==
    \/ VmCall(MaxCallsDeep) /\ UNCHANGED aside
    \/ SysVcallReenter({GV("CALLABLE", h) : h \in Handles},
                       {<<>>, <<GV("CALLABLE", 0)>>}, MaxCallsDeep) /\ UNCHANGED aside
    \/ SysVcallFinish /\ UNCHANGED aside
    \/ SysStringCreate /\ UNCHANGED aside
    \/ SysStringSize /\ UNCHANGED aside
    \/ SysGetObj({"Engine", "Secret"}, {1}, {NullAddr}) /\ UNCHANGED aside
    \/ SysThrow /\ UNCHANGED aside
    \/ GuestReturn /\ UNCHANGED aside
    \/ Timeout /\ UNCHANGED aside

Spec == Init /\ [][Next]_vars

(* ---------------------------------------------------------------------- *)
(* Properties of the call-state stack                                      *)
(* ---------------------------------------------------------------------- *)
CallEnded == last.end \in {"return", "exception", "timeout"}
\* the level whose scope the call that just ended had used
PoppedLevel == m_current_state + 1

CallStarted == last.op = "vmcall" /\ last.err = "none"

C4_CallReleasesLevel ==
    CallEnded =>
        /\ m_level = last.frame.level
        /\ m_current_state = m_level - 1
        /\ \A l \in m_level..MAX_LEVEL : m_states[l] = EmptyState

\* C4 witness: a call that had created a value and admitted an object ended
\* by an error
C4_Witness ==
    /\ CallEnded /\ last.end = "exception"
    /\ last.frame.hnds # {}
    /\ last.frame.objs # {}

\* C4 witness of the timeout case
C4_WitnessTimeout ==
    /\ CallEnded /\ last.end = "timeout"
    /\ last.frame.hnds # {}

\* C5: enter() at depth MAX_LEVEL fails with StackOverflow and changes
\* nothing: the depth, the current state and the scope of every level are as
\* before, and no frame is added.
C5_EnterAtMaxFails ==
    [][(Depth = MAX_LEVEL /\ last'.op = "vmcall") =>
          /\ last'.err = "StackOverflow"
          /\ m_level' = m_level
          /\ m_current_state' = m_current_state
          /\ m_states' = m_states
          /\ frames' = frames
          /\ pc' = pc]_vars

\* C5 witness: enter() has failed at depth MAX_LEVEL in a scope that holds
\* entries
C5_Witness ==
    /\ last.op = "vmcall" /\ last.err = "StackOverflow"
    /\ Depth = MAX_LEVEL
    /\ state # EmptyState

\* C6: the depth is within 0..MAX_LEVEL, the current state is the entry of
\* m_states at the depth, which exists, and there is one frame per level.
C6_DepthInRange ==
    /\ Depth \in 0..MAX_LEVEL
    /\ m_current_state = Depth
    /\ m_current_state \in 0..(m_states_size - 1)
    /\ m_current_state \in DOMAIN m_states
    /\ Len(frames) = Depth

\* C6 witness: the deepest level is in use
C6_Witness == Depth = MAX_LEVEL /\ pc = "guest"

\* C7: no step changes the scope of level 0.
C7_LevelZeroPermanent == [][m_states'[0] = m_states[0]]_vars

\* C7 witness: a call that created entries has ended while level 0 holds
\* entries
C7_Witness ==
    /\ CallEnded /\ pc = "host"
    /\ m_states[0] # EmptyState
    /\ last.frame.hnds # {}

\* a nested guest call has just started
NestedStarted == CallStarted /\ Len(frames) > 1

MaxStrLen == 3

\* what the guest passes as the value array of api_obj, per operation
ObjCalls ==
    {[op |-> o, gvar |-> <<GV("STRING", 0), GV("NIL", 0)>>] :
        o \in {"GET", "SET", "GET_METHOD_LIST", "INVALID"}}
    \cup {[op |-> o, gvar |-> <<GV("OBJECT", a), GV("STRING", 0), GV("STRING", 0)>>] :
             o \in {"CONNECT", "DISCONNECT"}, a \in AddrOrNull}
Node_Op ==
    {"GET_NAME", "SET_NAME", "GET_PARENT", "QUEUE_FREE", "DUPLICATE",
     "GET_CHILD_COUNT", "GET_CHILD", "ADD_CHILD", "ADD_SIBLING_DEFERRED",
     "MOVE_CHILD", "REMOVE_CHILD", "GET_CHILDREN", "INVALID"}
\* the children the engine lists: none, one node, or a non-Node and a node
ChildLists == {<<>>, <<1>>, <<NullAddr, NumAddr>>}
CallArgs == {<<>>, <<GV("STRING", 0)>>}

\* Sandbox::set_tree_base: the host moves the sandbox in the scene tree
set_tree_base ==
    /\ pc = "host"
    /\ \E tree_base \in {NullAddr, 1} :
          /\ tree_base # m_tree_base
          /\ m_tree_base' = tree_base
    /\ last' = Last("set_tree_base", "none", "", NoR, NoRaw, NilV, NoFrame)
    /\ UNCHANGED <<m_level, m_current_state, m_states, m_calls_made, pc, frames>>

SysObj ==
    /\ pc = "guest"
    /\ \E c \in ObjCalls, addr \in AddrOrNull :
          \E ret \in (IF c.op = "GET" THEN HostRets ELSE {NilV}) :
             Handled("api_obj", api_obj(state, c.op, addr, c.gvar, ret, m_max_refs),
                     Raw(c.op, IF c.op \in {"CONNECT", "DISCONNECT"}
                               THEN {addr, c.gvar[1].v} ELSE {addr}, {}))

SysObjCallp ==
    /\ pc = "guest"
    /\ \E addr \in AddrOrNull, deferred \in BOOLEAN, vret_ptr \in {0, 1},
          args \in CallArgs :
          \E args_size \in (IF args = <<>> THEN {0, 9} ELSE {Len(args)}),
             ret \in (IF ~deferred /\ vret_ptr # 0 THEN HostRets ELSE {NilV}) :
             Handled("api_obj_callp",
                     api_obj_callp(state, addr, deferred, vret_ptr, args_size, args,
                                   ret, m_max_refs),
                     Raw("", {addr}, {}))

SysGetNode ==
    /\ pc = "guest"
    /\ \E addr \in AddrOrNull, node \in AddrOrNull :
          Handled("api_get_node", api_get_node(state, addr, m_tree_base, node),
                  Raw("", {addr} \ {0}, {}))

SysNodeCreate ==
    /\ pc = "guest"
    /\ \E type \in {"CREATE_CLASSDB", "CREATE_NODE", "INVALID"}, name_empty \in BOOLEAN :
          \E obj \in (IF type = "CREATE_CLASSDB" THEN AddrOrNull ELSE Addr),
             terminated \in (IF type = "CREATE_CLASSDB" THEN BOOLEAN ELSE {TRUE}) :
             \E is_node \in (IF obj = NullAddr THEN {FALSE} ELSE BOOLEAN) :
                Handled("api_node_create",
                        api_node_create(state, type, terminated, obj, is_node, name_empty),
                        Raw(type, {}, {}))

SysNode ==
    /\ pc = "guest"
    /\ \E op \in Node_Op, addr \in AddrOrNull :
          \E gvar \in (IF op \in Node_Op_Child
                       THEN {<<GV("INT", a), GV("INT", 0)>> : a \in AddrOrNull}
                       ELSE {<<GV("STRING", 0)>>}),
             is_self \in (IF op = "QUEUE_FREE" THEN BOOLEAN ELSE {FALSE}),
             other \in (IF op \in {"GET_PARENT", "DUPLICATE", "GET_CHILD"}
                        THEN AddrOrNull ELSE {NullAddr}),
             children \in (IF op \in {"GET_CHILDREN", "GET_CHILD_COUNT"}
                           THEN ChildLists ELSE {<<>>}) :
             Handled("api_node",
                     api_node(state, op, addr, gvar, is_self, other, children, m_max_refs),
                     Raw(op, IF op \in Node_Op_Child THEN {addr, gvar[1].v} ELSE {addr}, {}))

SysNode2d ==
    /\ pc = "guest"
    /\ \E op \in {"GET_POSITION", "SET_SKEW", "INVALID"}, addr \in AddrOrNull,
          gvar \in {GV("NIL", 0), GV("STRING", 0)}, is_node2d \in BOOLEAN :
          Handled("api_node2d", api_node2d(state, op, addr, gvar, is_node2d),
                  Raw(op, {addr}, {}))

SysNode3d ==
    /\ pc = "guest"
    /\ \E op \in {"GET_ROTATION", "SET_SCALE", "SET_SKEW"}, addr \in AddrOrNull,
          gvar \in {GV("STRING", 0)}, is_node3d \in BOOLEAN :
          Handled("api_node3d", api_node3d(state, op, addr, gvar, is_node3d),
                  Raw(op, {addr}, {}))

SysTimerPeriodic ==
    /\ pc = "guest"
    /\ \E timer \in Addr :
          Handled("api_timer_periodic",
                  api_timer_periodic(state, m_tree_base, timer, m_max_refs), NoRaw)

SysStringAppend ==
    /\ pc = "guest"
    /\ \E str_idx \in Handles, strview \in Strs, oob \in {"throws", "wild"} :
          LET r == api_string_append(state, str_idx, strview, oob)
              after == get_scoped_variant(r.st, str_idx)
          IN  /\ (r.err = "none" /\ after.has) => Len(after.var.val) <= MaxStrLen
              /\ Handled("api_string_append", r, Raw("", {}, {str_idx}))

(* ---------------------------------------------------------------------- *)
(* Specification of the system calls: MaxCalls calls, none of them nested  *)
(* ---------------------------------------------------------------------- *)
NextSys ==
    \/ VmCall(MaxCalls) /\ UNCHANGED aside
    \/ set_tree_base /\ UNCHANGED aside
    \/ SysVcall({GV("OBJECT", a) : a \in AddrOrNull} \cup {GV("CALLABLE", 0), GV("INT", 0)},
                CallArgs) /\ UNCHANGED aside
    \/ SysStringCreate /\ UNCHANGED aside
    \/ SysStringSize /\ UNCHANGED aside
    \/ SysGetNode /\ UNCHANGED aside
    \/ SysGetObj({"Engine", "SceneTree", "Secret"}, Addr, AddrOrNull) /\ UNCHANGED aside
    \/ SysNodeCreate /\ UNCHANGED aside
    \/ SysObj /\ UNCHANGED aside
    \/ SysObjCallp /\ UNCHANGED aside
    \/ SysNode /\ UNCHANGED aside
    \/ SysNode2d /\ UNCHANGED aside
    \/ SysNode3d /\ UNCHANGED aside
    \/ SysTimerPeriodic /\ UNCHANGED aside
    \/ SysStringAppend /\ UNCHANGED aside
    \/ SysThrow /\ UNCHANGED aside
    \/ GuestReturn /\ UNCHANGED aside
    \/ Timeout /\ UNCHANGED aside

\* the scope of level 0 is empty: no system call runs outside a call
InitSys == Init /\ m_states[0] = EmptyState

SpecSys == InitSys /\ [][NextSys]_vars

(* ---------------------------------------------------------------------- *)
(* Properties of the system calls                                          *)
(* ---------------------------------------------------------------------- *)
\* the system calls that receive a raw object address
RawAddressOps ==
    {"api_obj", "api_obj_callp", "api_node", "api_node2d", "api_node3d", "api_vcall"}
NotScopedErrors == {"ObjectNotScoped", "NodeObjectNotScoped"}
NullErrors == {"ObjectNull", "NodeObjectNull"}
\* the step is a system call of the running call that received a raw object
\* address which the current scope has not admitted
RawNotAdmitted ==
    /\ pc = "guest"
    /\ last'.op \in RawAddressOps
    /\ \E a \in last'.raw : ~is_scoped_object(state, a)
\* the step ended the call with an error before any host-object operation
FailedUntouched == last'.end = "exception" /\ last'.touched = {}
\* an address is admitted only by an operation that admits it: within a call
\* the admitted set grows only in a step of a system call that succeeds, and
\* a call starts with no address admitted but the objects among its arguments
AdmittedOnlyByOperation ==
    /\ (pc = "guest" /\ pc' = "guest" /\ m_level' = m_level) =>
          \A a \in AddrOrNull :
             (is_scoped_object(state', a) /\ ~is_scoped_object(state, a)) =>
                 last'.err = "none" /\ last'.op \notin {"api_string_create", "api_string_size",
                                                        "api_string_append", "api_throw"}
    /\ (last'.op = "vmcall" /\ last'.err = "none") =>
          \A a \in AddrOrNull :
             is_scoped_object(state', a) =>
                 \E i \in 1..Len(TopFrame'.args) : TopFrame'.args[i] = ObjV(a)

\* C1 as stated: an address is not admitted until an operation admits it, and
\* every system call that receives the raw address of a host object that is
\* not admitted fails with a 'not scoped' error and performs no host-object
\* operation.
C1_AsStated ==
    [][/\ AdmittedOnlyByOperation
       /\ (/\ pc = "guest"
           /\ last'.op \in RawAddressOps
           /\ \E a \in last'.raw : a # NullAddr /\ ~is_scoped_object(state, a))
             => (FailedUntouched /\ last'.err \in NotScopedErrors)]_vars

\* C1 amended: an address is not admitted until an operation admits it, and
\* every system call that receives a raw object address that is not admitted
\* fails and performs no host-object operation; the error is 'not scoped',
\* except that a null address given to get_object_from_address or
\* get_node_from_address fails with 'is Null', and that api_vcall with more
\* than 8 arguments fails with 'Too many arguments' before it looks at the
\* address.
C1_NotAdmittedFails ==
    [][/\ AdmittedOnlyByOperation
       /\ RawNotAdmitted =>
             /\ FailedUntouched
             /\ \/ last'.err \in NotScopedErrors
                \/ last'.err \in NullErrors /\ NullAddr \in last'.raw
                \/ last'.err = "TooManyArguments" /\ last'.op = "api_vcall"]_vars

\* C1 witness: a child argument that is not admitted has made api_node fail
\* with the 'not scoped' error although the node itself is admitted
C1_Witness ==
    /\ last.op = "api_node" /\ last.sub \in Node_Op_Child
    /\ last.err = "NodeObjectNotScoped"
    /\ last.end = "exception"
    /\ last.touched = {}
    /\ \E node \in last.raw, child \in last.raw :
          /\ node \in last.frame.objs
          /\ child \notin last.frame.objs /\ child # NullAddr

\* the step is a system call that sees a capability violation: an object
\* address that is not admitted, a handle out of range for the current
\* level, or a handle of the wrong kind for a string operation
CapabilityViolation ==
    /\ pc = "guest"
    /\ \/ \E a \in last'.raw : ~is_scoped_object(state, a)
       \/ \E h \in last'.hraw : ~get_scoped_variant(state, h).has
       \/ /\ last'.op \in {"api_string_size", "api_string_append"}
          /\ \E h \in last'.hraw : get_scoped_variant(state, h).var.type # "STRING"

\* C9 as stated: every capability violation seen by a system call is fatal to
\* the current call: the handler raises an error, hands back no default, null
\* or zero result and does not proceed with the operation.
C9_AsStated ==
    [][CapabilityViolation =>
          /\ last'.err # "none"
          /\ last'.end = "exception"
          /\ last'.touched = {}]_vars

\* the system calls that hand an object address back to the guest
HandBackOps ==
    {"api_get_obj", "api_get_node", "api_node_create", "api_node", "api_timer_periodic"}

\* C10: every non-zero object address that api_get_obj, api_get_node,
\* api_node_create, api_node (DUPLICATE, GET_CHILD, GET_CHILDREN, GET_PARENT)
\* or api_timer_periodic hands back is admitted in the scope of the current
\* level when the system call returns, so that a following system call of the
\* same call passes the scope check with it.
C10_HandedBackAdmitted ==
    (pc = "guest" /\ last.op \in HandBackOps /\ last.err = "none") =>
        \A a \in last.objs :
           /\ a # NullAddr
           /\ is_scoped_object(state, a)
           /\ get_object_from_address(state, a) = "none"
           /\ get_node_from_address(state, a) = "none"

\* C10 witness: GET_PARENT has handed back the address of a parent node that
\* was not admitted before
C10_Witness ==
    /\ pc = "guest"
    /\ last.op = "api_node" /\ last.sub = "GET_PARENT"
    /\ last.err = "none"
    /\ last.objs # {}
    /\ last.objs \cap last.raw = {}
    /\ Len(state.scoped_objects) = 2

(* ---------------------------------------------------------------------- *)
(* Budget, statistics and resource configuration                           *)
(* ---------------------------------------------------------------------- *)
\* the instruction ceilings the host configures
MaxInsn == 2
\* what a larger ceiling leaves for the charges of the handlers
PenaltyRoom == 200000
InsnCeilings == {MaxInsn, PenaltyRoom + MaxInsn}
\* cap on the instructions of one call that are followed under a ceiling
\* they do not reach
MaxSteps == 3
\* cap on the bytes of guest heap in use
MaxHeap == 1

\* the handlers of the system-call table (install_syscall_handlers)
syscall_handlers ==
    {"api_print", "api_vcall", "api_veval", "api_vfree", "api_get_obj", "api_obj",
     "api_obj_callp", "api_get_node", "api_node", "api_node2d", "api_node3d",
     "api_throw", "is_editor", "sincos", "api_vector2_length",
     "api_vector2_normalize", "api_vector2_rotated", "api_vcreate", "api_vfetch",
     "api_vclone", "api_vstore", "api_array_ops", "api_array_at", "api_array_size",
     "api_dict_ops", "api_string_create", "api_string_ops", "api_string_at",
     "api_string_size", "api_string_append", "api_timer_periodic", "api_timer_stop",
     "api_node_create"}

\* the argument of machine.penalize in each handler that calls it
Penalized ==
    [api_vcreate |-> 10000, api_vfetch |-> 10000, api_vclone |-> 10000,
     api_vstore |-> 10000, api_vfree |-> 10000, api_get_obj |-> 150000,
     api_obj |-> 250000, api_obj_callp |-> 250000, api_get_node |-> 150000,
     api_node_create |-> 150000, api_node |-> 250000, api_node2d |-> 100000,
     api_node3d |-> 100000, api_string_create |-> 10000,
     api_timer_periodic |-> 100000, on_unhandled_syscall |-> 100000]

\* what a handler charges: nothing where the handler has no machine.penalize
penalty(op) == IF op \in DOMAIN Penalized THEN Penalized[op] ELSE 0

\* no instruction is counted for a system call
ecall_insn_none == 1 - 1

\* the instructions the machine counts for the system call itself
ecall_insn == 1

\* a fallback that raises an error
on_unhandled_syscall_throws(s, syscall) == Fail(s, "UnhandledSyscall")

\* the fallback of the dispatch: prints the number (res), raises nothing
on_unhandled_syscall(s, syscall) == R(s, "none", syscall, {}, {}, {})

\* handle_timeout that does not count the overrun
handle_timeout_uncounted ==
    UNCHANGED <<m_exceptions, m_global_exceptions, m_budget_overruns,
                m_global_budget_overruns>>

\* handle_timeout: the overrun is counted for the instance and process-wide
handle_timeout ==
    /\ m_budget_overruns' = m_budget_overruns + 1
    /\ m_global_budget_overruns' = m_global_budget_overruns + 1
    /\ UNCHANGED <<m_exceptions, m_global_exceptions>>

\* handle_exception that also counts an overrun
handle_exception_both ==
    /\ m_exceptions' = m_exceptions + 1
    /\ m_global_exceptions' = m_global_exceptions + 1
    /\ m_budget_overruns' = m_budget_overruns + 1
    /\ m_global_budget_overruns' = m_global_budget_overruns + 1

\* handle_exception: the error is counted for the instance and process-wide
handle_exception ==
    /\ m_exceptions' = m_exceptions + 1
    /\ m_global_exceptions' = m_global_exceptions + 1
    /\ UNCHANGED <<m_budget_overruns, m_global_budget_overruns>>

\* the statistics of vmcall_internal: a call that starts is counted, a call
\* that fails goes through handle_exception or handle_timeout
CallAccounting ==
    /\ m_global_calls_made' = m_global_calls_made + (m_calls_made' - m_calls_made)
    /\ IF last'.end = "exception" THEN handle_exception
       ELSE IF last'.end = "timeout" THEN handle_timeout
       ELSE UNCHANGED <<m_exceptions, m_global_exceptions, m_budget_overruns,
                        m_global_budget_overruns>>

\* the machine executes guest instructions while the counter has not
\* passed the ceiling
WithinBudget == insn <= m_insn_max

\* every charge is a multiple of 10000: the remainder is the number of
\* instructions the guest has executed in the call
Followed == insn % 10000 < MaxSteps

\* a penalize that counts one instruction for a charge of 0
penalize_at_least_one(counter, cost) == counter + (IF cost = 0 THEN 1 ELSE cost)

\* machine.penalize: the cost is added to the instruction counter
penalize(counter, cost) == counter + cost

\* a system call: the instruction itself and what the handler charged
Metered ==
    /\ insn' = penalize(insn + ecall_insn, penalty(last'.op))
    /\ CallAccounting
    /\ UNCHANGED heap

\* the setters of the configuration: the value of the member afterwards
set_max_refs(max, cur) == max
set_memory_max(max, cur) == max
set_instructions_max(max, cur) == max

\* a set_calls_made that stores its argument
set_calls_made_stores(calls, cur) == calls

\* the setters of the statistics have empty bodies
set_heap_usage(usage, cur) == cur
set_budget_overruns(budget, cur) == cur
set_calls_made(calls, cur) == cur

ConfigSetters == {"set_max_refs", "set_memory_max", "set_instructions_max"}
StatSetters == {"set_heap_usage", "set_budget_overruns", "set_calls_made"}
\* the values a caller passes to a setter
SetterArgs(method) ==
    IF method = "set_max_refs" THEN {MaxRefs - 1, MaxRefs}
    ELSE IF method = "set_memory_max" THEN {MAX_VMEM - 1, MAX_VMEM}
    ELSE IF method = "set_instructions_max" THEN InsnCeilings
    ELSE {0, 1}

\* a call of a setter of the Sandbox: what it does to the configuration
Sandbox_config_call(method, v) ==
    /\ m_max_refs' = IF method = "set_max_refs"
                     THEN set_max_refs(v, m_max_refs) ELSE m_max_refs
    /\ m_memory_max' = IF method = "set_memory_max"
                       THEN set_memory_max(v, m_memory_max) ELSE m_memory_max
    /\ m_insn_max' = IF method = "set_instructions_max"
                     THEN set_instructions_max(v, m_insn_max) ELSE m_insn_max

\* the host configures the sandbox between calls
HostSetsConfig ==
    /\ pc = "host"
    /\ \E method \in ConfigSetters :
          \E v \in SetterArgs(method) :
             /\ Sandbox_config_call(method, v)
             /\ last' = Last(method, "none", "", NoR, NoRaw, IntV(v), NoFrame)
    /\ UNCHANGED <<m_level, m_current_state, m_states, m_tree_base, m_calls_made,
                   pc, frames>>
    /\ UNCHANGED <<stats, multi, profiling>>

\* the host calls a setter of the statistics
HostSetsStat ==
    /\ pc = "host"
    /\ \E method \in StatSetters :
          \E v \in SetterArgs(method) :
             /\ heap' = IF method = "set_heap_usage"
                        THEN set_heap_usage(v, heap) ELSE heap
             /\ m_budget_overruns' = IF method = "set_budget_overruns"
                                     THEN set_budget_overruns(v, m_budget_overruns)
                                     ELSE m_budget_overruns
             /\ m_calls_made' = IF method = "set_calls_made"
                                THEN set_calls_made(v, m_calls_made) ELSE m_calls_made
             /\ last' = Last(method, "none", "", NoR, NoRaw, IntV(v), NoFrame)
    /\ UNCHANGED <<m_level, m_current_state, m_states, m_tree_base, pc, frames>>
    /\ UNCHANGED <<insn, m_exceptions, m_global_calls_made, m_global_exceptions,
                   m_global_budget_overruns>>
    /\ UNCHANGED <<config, multi, profiling>>

\* the Sandbox is itself a node of the scene tree, at this address
SandboxAddr == 1

\* api_obj_callp on the Sandbox node: callv runs the method of the Sandbox
SysObjCallpSandbox ==
    /\ pc = "guest"
    /\ \E method \in ConfigSetters \cup StatSetters :
          \E v \in SetterArgs(method) :
             LET r == api_obj_callp(state, SandboxAddr, FALSE, 0, 1, <<GV("INT", v)>>,
                                    NilV, m_max_refs)
             IN  /\ Handled("api_obj_callp", r, Raw(method, {SandboxAddr}, {}))
                 /\ IF r.err = "none" /\ method \in ConfigSetters
                    THEN Sandbox_config_call(method, v)
                    ELSE UNCHANGED config

\* a system call number that is not in the table
UnknownSyscalls == {999}
SysUnhandled ==
    /\ pc = "guest"
    /\ \E syscall \in UnknownSyscalls :
          Handled("on_unhandled_syscall", on_unhandled_syscall(state, syscall), NoRaw)

\* the guest executes an instruction that is not a system call; it may
\* allocate or free on its heap
GuestRuns ==
    /\ pc = "guest"
    /\ insn' = insn + 1
    /\ \E h \in 0..MaxHeap : heap' = h
    /\ last' = Last("run", "none", "", NoR, NoRaw, NilV, NoFrame)
    /\ UNCHANGED <<m_level, m_current_state, m_states, m_tree_base, m_calls_made,
                   pc, frames>>
    /\ UNCHANGED <<m_budget_overruns, m_exceptions, m_global_calls_made,
                   m_global_exceptions, m_global_budget_overruns>>

\* the machine stops the guest once the counter has passed the ceiling
BudgetExceeded ==
    /\ ~WithinBudget
    /\ Timeout
    /\ CallAccounting
    /\ UNCHANGED <<insn, heap>>

\* a call starts with a counter of 0
VmCallBudget ==
    /\ VmCall(MaxCalls)
    /\ insn' = 0
    /\ CallAccounting
    /\ UNCHANGED heap

(* ---------------------------------------------------------------------- *)
(* Specification of the budget: MaxCalls calls under a ceiling             *)
(* ---------------------------------------------------------------------- *)
idle == <<multi, profiling>>

\* what the machine does while a guest call runs
GuestNext ==
    \/ WithinBudget /\ Followed /\ SysStringCreate /\ Metered /\ UNCHANGED <<config, idle>>
    \/ WithinBudget /\ Followed /\ SysStringSize /\ Metered /\ UNCHANGED <<config, idle>>
    \/ WithinBudget /\ Followed /\ SysGetNode /\ Metered /\ UNCHANGED <<config, idle>>
    \/ WithinBudget /\ Followed /\ SysObjCallpSandbox /\ Metered /\ UNCHANGED idle
    \/ WithinBudget /\ Followed /\ SysUnhandled /\ Metered /\ UNCHANGED <<config, idle>>
    \/ WithinBudget /\ SysThrow /\ Metered /\ UNCHANGED <<config, idle>>
    \/ WithinBudget /\ Followed /\ GuestRuns /\ UNCHANGED <<config, idle>>
    \/ WithinBudget /\ GuestReturn /\ Metered /\ UNCHANGED <<config, idle>>
    \/ BudgetExceeded /\ UNCHANGED <<config, idle>>

NextBudget ==
    \/ VmCallBudget /\ UNCHANGED <<config, idle>>
    \/ set_tree_base /\ UNCHANGED aside
    \/ HostSetsConfig
    \/ HostSetsStat
    \/ GuestNext

\* the host has configured the ceiling
InitBudget ==
    /\ m_max_refs = MaxRefs
    /\ m_memory_max = MAX_VMEM
    /\ m_insn_max \in InsnCeilings
    /\ InitCore
    /\ m_states[0] = EmptyState
    /\ InitStats
    /\ InitSingle
    /\ InitNoProfiling

SpecBudget == InitBudget /\ [][NextBudget]_vars

\* the machine runs the guest to the end of the call: it does not stop
\* between two instructions
SpecBudgetFair == SpecBudget /\ WF_vars(GuestNext)

(* ---------------------------------------------------------------------- *)
(* Properties of the budget and the statistics                             *)
(* ---------------------------------------------------------------------- *)
\* C11: once the instruction counter of a running call has passed the
\* ceiling, the next step of the call is the Timeout: no further system call
\* runs, the overrun counter grows by exactly 1 (and the exception counter
\* does not), the call is over and leave() has released its level (depth
\* decremented, scope of the level empty).  A Timeout is raised, and an
\* overrun counted, in no other step, so a call has at most one.
C11_OneTimeout ==
    [][/\ (pc = "guest" /\ insn > m_insn_max) =>
             /\ last'.op = "timeout" /\ last'.end = "timeout"
             /\ m_budget_overruns' = m_budget_overruns + 1
             /\ m_exceptions' = m_exceptions
             /\ frames' = SubSeq(frames, 1, Len(frames) - 1)
             /\ m_level' = m_level - 1
             /\ m_states'[m_current_state] = EmptyState
       /\ last'.end = "timeout" => (pc = "guest" /\ insn > m_insn_max)
       /\ m_budget_overruns' # m_budget_overruns => last'.end = "timeout"
      ]_vars

\* C11 witness: a call that had created a String (a charge that crosses the
\* ceiling at once) was stopped by the Timeout and counted once
C11_Witness ==
    /\ last.end = "timeout"
    /\ last.frame.hnds # {}
    /\ insn > m_insn_max
    /\ m_budget_overruns = 1
    /\ m_level = m_level_init

\* C12 as stated: every handler of the system-call table charges a cost of
\* its own (beyond the instruction of the system call) on every path
C12_AsStated ==
    [][last'.op \in syscall_handlers => insn' > insn + ecall_insn]_vars

\* C13: the fallback for a system call that is not in the table charges
\* 100000, reports the number, raises no error, leaves the depth and every
\* scope unchanged, counts neither an exception nor an overrun, and the guest
\* call is still running afterwards.
C13_UnhandledFallback ==
    [][last'.op = "on_unhandled_syscall" =>
          /\ last'.err = "none" /\ last'.end = ""
          /\ last'.res \in UnknownSyscalls
          /\ insn' = insn + ecall_insn + 100000
          /\ m_level' = m_level
          /\ m_current_state' = m_current_state
          /\ m_states' = m_states
          /\ frames' = frames
          /\ pc = "guest" /\ pc' = "guest"
          /\ UNCHANGED <<m_exceptions, m_budget_overruns>>
      ]_vars

\* C13 witness: the fallback ran in a call that holds a handle and the call
\* is still running
C13_Witness ==
    /\ last.op = "on_unhandled_syscall"
    /\ pc = "guest"
    /\ insn >= 100000 /\ insn <= m_insn_max
    /\ TopFrame.hnds # {}

C16_CallComesBack ==
    /\ [](pc = "guest" => <>(pc = "host"))
    /\ [][/\ (pc = "guest" /\ pc' = "host") =>
                last'.end \in {"return", "exception", "timeout"}
          /\ pc = "guest" => last'.op \notin (ConfigSetters \cup StatSetters
                                              \cup {"vmcall", "set_tree_base"})
         ]_vars

\* C16 witness: a call that ran instructions, within the ceiling, has come
\* back by a return
C16_Witness ==
    /\ pc = "host"
    /\ last.end = "return"
    /\ insn = m_insn_max

\* C17 as stated: no step of a running guest call changes the resource
\* configuration
C17_AsStated == [][pc = "guest" => UNCHANGED config]_vars

\* C18: a call of set_budget_overruns, set_calls_made or set_heap_usage,
\* by the host or by the guest through api_obj_callp, leaves the overrun
\* counter, the calls-made counter and the heap usage as they are, whatever
\* the argument.
C18_StatSettersNoEffect ==
    [][(last'.op \in StatSetters \/ last'.sub \in StatSetters) =>
          UNCHANGED <<m_budget_overruns, m_calls_made, heap>>]_vars

\* C18 witness: set_calls_made was called with an argument that differs
\* from the counter
C18_Witness ==
    /\ last.op = "set_calls_made"
    /\ m_calls_made = 1
    /\ last.ret = IntV(0)

(* ---------------------------------------------------------------------- *)
(* Print, Array, Dictionary and String operations                          *)
(* ---------------------------------------------------------------------- *)
ArrV(elems) == [type |-> "ARRAY", val |-> elems]
\* a Dictionary: its pairs <<key, value>> in insertion order
DictV(pairs) == [type |-> "DICTIONARY", val |-> pairs]

\* an api_print that does not check the number of Variants
api_print_unchecked(s, len, gvars) ==
    LET d == DecodeArgs(s, gvars)
    IN  IF d.err # "none" THEN Fail(s, d.err)
        ELSE R(s, "none", len, {}, {}, {})

\* api_print: the length check comes before the array is read; res is the
\* number of Variants printed
api_print(s, len, gvars) ==
    IF len >= 64 THEN Fail(s, "TooManyVariants")
    ELSE LET d == DecodeArgs(s, gvars)
         IN  IF d.err # "none" THEN Fail(s, d.err)
             ELSE R(s, "none", len, {}, {}, {})

\* the sequence without its element at position i (1-based)
RemoveAt(seq, i) == SubSeq(seq, 1, i - 1) \o SubSeq(seq, i + 1, Len(seq))
InsertAt(seq, i, x) == SubSeq(seq, 1, i - 1) \o <<x>> \o SubSeq(seq, i, Len(seq))
\* the order of Variants: Nil before integers, integers by value
VariantLess(a, b) ==
    IF a.type = "INT" /\ b.type = "INT" THEN a.val[1] < b.val[1]
    ELSE a.type = "NIL" /\ b.type # "NIL"
RECURSIVE SortVariants(_)
SortVariants(seq) ==
    IF seq = <<>> THEN <<>>
    ELSE LET rest == SortVariants(Tail(seq))
             k == Cardinality({i \in 1..Len(rest) : ~VariantLess(Head(seq), rest[i])})
         IN  InsertAt(rest, k + 1, Head(seq))

\* api_array_ops: the handle must designate an Array, for every operation;
\* the Array shares its elements with the scoped Variant
api_array_ops(s, op, arr_idx, idx, gv, max_refs) ==
    LET opt == get_scoped_variant(s, arr_idx)
    IN  IF ~opt.has \/ opt.var.type # "ARRAY" THEN Fail(s, "InvalidArrayObject")
        ELSE
        LET array == opt.var.val
            n == Len(array)
            d == toVariant(s, gv)
            at == IF idx < 0 THEN idx + n ELSE idx
            first == {i \in 1..n : array[i] = IntV(idx)}
            Put(a) == R(AssignVariant(s, arr_idx, ArrV(a)), "none", -1, {}, {}, {})
        IN  CASE op = "CREATE" ->
                   LET c == create_scoped_variant(s, ArrV([i \in 1..arr_idx |-> NilV]),
                                                  max_refs)
                   IN  IF c.err # "none" THEN Fail(s, c.err)
                       ELSE R(c.st, "none", c.idx, {c.idx}, {}, {})
              [] op = "PUSH_BACK" ->
                   IF d.err # "none" THEN Fail(s, d.err) ELSE Put(Append(array, d.var))
              [] op = "PUSH_FRONT" ->
                   IF d.err # "none" THEN Fail(s, d.err) ELSE Put(<<d.var>> \o array)
              [] op = "POP_AT" ->
                   Put(IF at >= 0 /\ at < n THEN RemoveAt(array, at + 1) ELSE array)
              [] op = "POP_BACK" -> Put(IF n > 0 THEN RemoveAt(array, n) ELSE array)
              [] op = "POP_FRONT" -> Put(IF n > 0 THEN Tail(array) ELSE array)
              [] op = "INSERT" ->
                   IF d.err # "none" THEN Fail(s, d.err)
                   ELSE Put(IF idx >= 0 /\ idx <= n THEN InsertAt(array, idx + 1, d.var)
                            ELSE array)
              [] op = "ERASE" ->
                   Put(IF first # {}
                       THEN RemoveAt(array, CHOOSE i \in first : \A j \in first : i <= j)
                       ELSE array)
              [] op = "RESIZE" ->
                   Put(IF idx < 0 THEN array
                       ELSE [i \in 1..idx |-> IF i <= n THEN array[i] ELSE NilV])
              [] op = "CLEAR" -> Put(<<>>)
              [] op = "SORT" -> Put(SortVariants(array))
              [] OTHER -> Fail(s, "InvalidArrayOperation")

\* a Dictionary as pairs: lookup, store, erase
DictHas(pairs, key) == \E i \in 1..Len(pairs) : pairs[i][1] = key
DictGet(pairs, key) ==
    IF DictHas(pairs, key)
    THEN pairs[CHOOSE i \in 1..Len(pairs) : pairs[i][1] = key][2]
    ELSE NilV
\* a store that leaves a key that is present as it is
DictSet_keeps(pairs, key, value) ==
    IF DictHas(pairs, key) THEN pairs ELSE Append(pairs, <<key, value>>)
\* dict[key] = value
DictSet(pairs, key, value) ==
    IF DictHas(pairs, key)
    THEN [i \in 1..Len(pairs) |-> IF pairs[i][1] = key THEN <<key, value>> ELSE pairs[i]]
    ELSE Append(pairs, <<key, value>>)
DictErase(pairs, key) == SelectSeq(pairs, LAMBDA p : p[1] # key)
RECURSIVE DictMerge(_, _)
DictMerge(pairs, other) ==
    IF other = <<>> THEN pairs
    ELSE DictMerge(IF DictHas(pairs, Head(other)[1]) THEN pairs
                   ELSE Append(pairs, Head(other)), Tail(other))

\* api_dict_ops: the handle must designate a Dictionary; the Dictionary
\* shares its pairs with the scoped Variant.  GET uses operator[], which
\* adds a missing key with an empty value.
api_dict_ops(s, op, dict_idx, vkey, vaddr, max_refs) ==
    LET opt == get_scoped_variant(s, dict_idx)
    IN  IF ~opt.has \/ opt.var.type # "DICTIONARY" THEN Fail(s, "InvalidDictionaryObject")
        ELSE
        LET dict == opt.var.val
            key == toVariant(s, vkey)
            value == toVariant(s, vaddr)
            Put(p) == AssignVariant(s, dict_idx, DictV(p))
        IN  CASE op = "GET" ->
                   IF key.err # "none" THEN Fail(s, key.err)
                   ELSE Written(Put(DictSet(dict, key.var, DictGet(dict, key.var))),
                                create(Put(DictSet(dict, key.var, DictGet(dict, key.var))),
                                       DictGet(dict, key.var), max_refs), {})
              [] op = "SET" ->
                   IF key.err # "none" THEN Fail(s, key.err)
                   ELSE IF value.err # "none" THEN Fail(s, value.err)
                   ELSE R(Put(DictSet(dict, key.var, value.var)), "none", -1, {}, {}, {})
              [] op = "ERASE" ->
                   IF key.err # "none" THEN Fail(s, key.err)
                   ELSE R(Put(DictErase(dict, key.var)), "none", -1, {}, {}, {})
              [] op = "HAS" ->
                   IF key.err # "none" THEN Fail(s, key.err)
                   ELSE R(s, "none", IF DictHas(dict, key.var) THEN 1 ELSE 0, {}, {}, {})
              [] op = "GET_SIZE" -> R(s, "none", Len(dict), {}, {}, {})
              [] op = "CLEAR" -> R(Put(<<>>), "none", -1, {}, {}, {})
              [] op = "MERGE" ->
                   IF key.err # "none" THEN Fail(s, key.err)
                   ELSE R(Put(DictMerge(dict, IF key.var.type = "DICTIONARY"
                                              THEN key.var.val ELSE <<>>)),
                          "none", -1, {}, {}, {})
              [] OTHER -> Fail(s, "InvalidDictionaryOperation")

\* api_string_ops: the handle must designate a String; APPEND appends to a
\* copy of the String, the scoped Variant keeps its value
api_string_ops(s, op, str_idx, index, gv) ==
    LET opt == get_scoped_variant(s, str_idx)
    IN  IF ~opt.has \/ opt.var.type # "STRING" THEN Fail(s, "InvalidStringObject")
        ELSE
        LET str == opt.var.val
            d == toVariant(s, gv)
        IN  CASE op = "APPEND" ->
                   IF d.err # "none" THEN Fail(s, d.err)
                   ELSE R(s, "none", -1, {}, {}, {})
              [] op = "GET_LENGTH" -> R(s, "none", Len(str), {}, {}, {})
              [] op = "TO_STD_STRING" ->
                   IF index = 0 \/ index = 2 THEN R(s, "none", -1, {}, {}, {})
                   ELSE Fail(s, "InvalidStringConversion")
              [] OTHER -> Fail(s, "InvalidStringOperation")

\* cap on the length of an Array and of a Dictionary
MaxArrLen == 2
Array_Op ==
    {"CREATE", "PUSH_BACK", "PUSH_FRONT", "POP_AT", "POP_BACK", "POP_FRONT", "INSERT",
     "ERASE", "RESIZE", "CLEAR", "SORT", "INVALID"}
Dictionary_Op == {"GET", "SET", "ERASE", "HAS", "GET_SIZE", "CLEAR", "MERGE", "INVALID"}
String_Op == {"APPEND", "GET_LENGTH", "TO_STD_STRING", "INVALID"}
\* the arguments of a host call that passes collections
CollArgs == {<<ArrV(<<IntV(1), IntV(0)>>), StrV(<<97>>)>>, <<DictV(<<>>)>>}
\* the values the guest passes inline
Inline == {GV("INT", 0)}

VmCallColl ==
    /\ pc = "host"
    /\ \E args \in CollArgs : vmcall_internal(args, MaxCalls)

SysPrint ==
    /\ pc = "guest"
    /\ \E gvars \in {<<>>, <<GV("INT", 0), GV("ARRAY", 0)>>, <<GV("STRING", MaxRefs)>>} :
          \E len \in (IF gvars = <<>> THEN {0, 63, 64} ELSE {Len(gvars)}) :
             Handled("api_print", api_print(state, len, IF len = 63 THEN <<>> ELSE gvars),
                     Raw(IF len >= 64 THEN "INVALID" ELSE "", {}, {}))

SysArrayOps ==
    /\ pc = "guest"
    /\ \E op \in Array_Op, arr_idx \in Handles, idx \in {0, 1}, gv \in Inline :
          LET r == api_array_ops(state, op, arr_idx, idx, gv, m_max_refs)
              after == get_scoped_variant(r.st, arr_idx)
          IN  /\ (r.err = "none" /\ after.has) => Len(after.var.val) <= MaxArrLen
              /\ op \notin {"PUSH_BACK", "PUSH_FRONT", "INSERT"} => gv = GV("INT", 0)
              /\ op \notin {"POP_AT", "INSERT", "ERASE", "RESIZE"} => idx = 0
              /\ Handled("api_array_ops", r, Raw(op, {}, {arr_idx}))

SysDictOps ==
    /\ pc = "guest"
    /\ \E op \in Dictionary_Op, dict_idx \in Handles,
          vkey \in Inline \cup {GV("DICTIONARY", 0)}, vaddr \in Inline :
          LET r == api_dict_ops(state, op, dict_idx, vkey, vaddr, m_max_refs)
              after == get_scoped_variant(r.st, dict_idx)
          IN  /\ (r.err = "none" /\ after.has) => Len(after.var.val) <= MaxArrLen
              /\ op # "SET" => vaddr = GV("INT", 0)
              /\ op # "MERGE" => vkey \in Inline
              /\ op \in {"GET_SIZE", "CLEAR", "INVALID"} => vkey = GV("INT", 0)
              /\ Handled("api_dict_ops", r, Raw(op, {}, {dict_idx}))

SysStringOps ==
    /\ pc = "guest"
    /\ \E op \in String_Op, str_idx \in Handles, index \in {0, 1, 2} :
          /\ op # "TO_STD_STRING" => index = 0
          /\ Handled("api_string_ops",
                     api_string_ops(state, op, str_idx, index, GV("INT", 0)),
                     Raw(op, {}, {str_idx}))

(* ---------------------------------------------------------------------- *)
(* Specification of the operations on collections                          *)
(* ---------------------------------------------------------------------- *)
NextColl ==
    \/ VmCallColl /\ UNCHANGED aside
    \/ set_tree_base /\ UNCHANGED aside
    \/ SysGetNode /\ UNCHANGED aside
    \/ SysPrint /\ UNCHANGED aside
    \/ SysArrayOps /\ UNCHANGED aside
    \/ SysDictOps /\ UNCHANGED aside
    \/ SysStringOps /\ UNCHANGED aside
    \/ SysObj /\ UNCHANGED aside
    \/ SysNode2d /\ UNCHANGED aside
    \/ GuestReturn /\ UNCHANGED aside
    \/ Timeout /\ UNCHANGED aside

SpecColl == InitSys /\ [][NextColl]_vars

(* ---------------------------------------------------------------------- *)
(* Properties of the protocol checks                                       *)
(* ---------------------------------------------------------------------- *)
\* what the handlers yield in scope s for the calls that break the
\* protocol: 64 Variants to print, 9 arguments, a class name that is not
\* terminated, an operation code outside the enumeration
ProtocolViolations(s) ==
    {api_print(s, 64, <<>>)}
    \cup {api_vcall(s, vp, 9, <<>>, NilV, m_max_refs) :
             vp \in {GV("OBJECT", a) : a \in AddrOrNull}
                    \cup {GV("CALLABLE", h) : h \in Handles} \cup {GV("INT", 0)}}
    \cup {api_obj_callp(s, addr, deferred, 1, 9, <<>>, ObjV(1), m_max_refs) :
             addr \in AddrOrNull, deferred \in BOOLEAN}
    \cup {api_node_create(s, "CREATE_CLASSDB", FALSE, obj, is_node, FALSE) :
             obj \in AddrOrNull, is_node \in BOOLEAN}
    \cup {api_obj(s, "INVALID", addr, <<GV("STRING", 0), GV("NIL", 0)>>, ObjV(1),
                  m_max_refs) : addr \in AddrOrNull}
    \cup {api_node(s, "INVALID", addr, <<GV("STRING", 0)>>, FALSE, 1, <<1>>, m_max_refs) :
             addr \in AddrOrNull}
    \cup {api_node2d(s, "INVALID", addr, GV("NIL", 0), is_node2d) :
             addr \in AddrOrNull, is_node2d \in BOOLEAN}
    \cup {api_node3d(s, "INVALID", addr, GV("NIL", 0), is_node3d) :
             addr \in AddrOrNull, is_node3d \in BOOLEAN}
    \cup {api_array_ops(s, "INVALID", h, 0, GV("INT", 0), m_max_refs) : h \in Handles}
    \cup {api_dict_ops(s, "INVALID", h, GV("INT", 0), GV("INT", 0), m_max_refs) :
             h \in Handles}
    \cup {api_string_ops(s, "INVALID", h, 0, GV("INT", 0)) : h \in Handles}
    \cup {api_string_ops(s, "TO_STD_STRING", h, 1, GV("INT", 0)) : h \in Handles}

\* C14: in every scope a running call can have, each call that breaks the
\* protocol (api_print with 64 Variants, api_vcall and api_obj_callp with 9
\* arguments, api_node_create(CREATE_CLASSDB) with a class name that is not
\* terminated, an operation code outside the enumeration for api_obj,
\* api_node, api_node2d, api_node3d, api_array_ops, api_dict_ops and
\* api_string_ops) raises an error, has touched no host object, has handed
\* out no handle and no object and leaves the scope as it was; and a handler
\* error ends the current call in the same step.
C14_ViolationAborts ==
    /\ [](pc = "guest" =>
            \A r \in ProtocolViolations(state) :
               /\ r.err # "none"
               /\ r.st = state
               /\ r.touched = {} /\ r.objs = {} /\ r.hnds = {})
    /\ [][(last'.op \in syscall_handlers /\ last'.err # "none") =>
             /\ last'.end = "exception"
             /\ frames' = SubSeq(frames, 1, Len(frames) - 1)
             /\ m_level' = m_level - 1]_vars
    /\ [][last'.sub = "INVALID" => (last'.err # "none" /\ last'.touched = {})]_vars

\* C14 witness: a call that holds an Array has issued api_array_ops with an
\* operation code outside the enumeration, on the Array, and has ended
C14_Witness ==
    /\ last.op = "api_array_ops" /\ last.sub = "INVALID"
    /\ last.err = "InvalidArrayOperation"
    /\ last.end = "exception"
    /\ pc = "host"

(* ---------------------------------------------------------------------- *)
(* Several Sandbox instances, each on a thread of its own                  *)
(* ---------------------------------------------------------------------- *)
NumInstances == 2
Instances == 1..NumInstances

\* thread t, which runs the calls of instance t, goes to pc with reg loaded
Thread(t, to, reg) == [threads EXCEPT ![t] = [pc |-> to, reg |-> reg]]

\* vmcall_internal counts the call: the counter of the instance, and the
\* process-wide counter, a plain uint64_t, by a load and a store
CountCallLoad(t) ==
    /\ threads[t].pc = "idle"
    /\ sandboxes[t].m_calls_made < MaxCalls
    /\ sandboxes' = [sandboxes EXCEPT ![t].m_calls_made = @ + 1]
    /\ threads' = Thread(t, "calls_store", m_global_calls_made)
    /\ UNCHANGED <<m_global_calls_made, m_global_exceptions, m_global_budget_overruns>>

CountCallStore(t) ==
    /\ threads[t].pc = "calls_store"
    /\ m_global_calls_made' = threads[t].reg + 1
    /\ threads' = Thread(t, "guest", 0)
    /\ UNCHANGED <<sandboxes, m_global_exceptions, m_global_budget_overruns>>

\* the guest function returns
CallReturns(t) ==
    /\ threads[t].pc = "guest"
    /\ threads' = Thread(t, "idle", 0)
    /\ UNCHANGED <<sandboxes, m_global_calls_made, m_global_exceptions,
                   m_global_budget_overruns>>

\* handle_exception counts the error
CountExceptionLoad(t) ==
    /\ threads[t].pc = "guest"
    /\ sandboxes' = [sandboxes EXCEPT ![t].m_exceptions = @ + 1]
    /\ threads' = Thread(t, "exceptions_store", m_global_exceptions)
    /\ UNCHANGED <<m_global_calls_made, m_global_exceptions, m_global_budget_overruns>>

CountExceptionStore(t) ==
    /\ threads[t].pc = "exceptions_store"
    /\ m_global_exceptions' = threads[t].reg + 1
    /\ threads' = Thread(t, "idle", 0)
    /\ UNCHANGED <<sandboxes, m_global_calls_made, m_global_budget_overruns>>

\* handle_timeout counts the overrun
CountOverrunLoad(t) ==
    /\ threads[t].pc = "guest"
    /\ sandboxes' = [sandboxes EXCEPT ![t].m_budget_overruns = @ + 1]
    /\ threads' = Thread(t, "overruns_store", m_global_budget_overruns)
    /\ UNCHANGED <<m_global_calls_made, m_global_exceptions, m_global_budget_overruns>>

CountOverrunStore(t) ==
    /\ threads[t].pc = "overruns_store"
    /\ m_global_budget_overruns' = threads[t].reg + 1
    /\ threads' = Thread(t, "idle", 0)
    /\ UNCHANGED <<sandboxes, m_global_calls_made, m_global_exceptions>>

\* what a step of a thread leaves alone
ThreadFrame ==
    UNCHANGED <<core, config, profiling, insn, heap, m_budget_overruns, m_exceptions>>

NextGlobal ==
    \/ \E t \in Instances : CountCallLoad(t) /\ ThreadFrame
    \/ \E t \in Instances : CountCallStore(t) /\ ThreadFrame
    \/ \E t \in Instances : CallReturns(t) /\ ThreadFrame
    \/ \E t \in Instances : CountExceptionLoad(t) /\ ThreadFrame
    \/ \E t \in Instances : CountExceptionStore(t) /\ ThreadFrame
    \/ \E t \in Instances : CountOverrunLoad(t) /\ ThreadFrame
    \/ \E t \in Instances : CountOverrunStore(t) /\ ThreadFrame

InitGlobal ==
    /\ InitConfig /\ InitCore /\ InitStats /\ InitNoProfiling
    /\ sandboxes = [i \in Instances |->
                      [m_calls_made |-> 0, m_exceptions |-> 0, m_budget_overruns |-> 0]]
    /\ threads = [i \in Instances |-> [pc |-> "idle", reg |-> 0]]

SpecGlobal == InitGlobal /\ [][NextGlobal]_vars

(* ---------------------------------------------------------------------- *)
(* Properties of the process-wide counters                                 *)
(* ---------------------------------------------------------------------- *)
RECURSIVE SumOver(_, _)
SumOver(field, n) ==
    IF n = 0 THEN 0 ELSE sandboxes[n][field] + SumOver(field, n - 1)

\* C19 as stated: when no call is running on any thread, each process-wide
\* counter equals the sum of the counters of the instances
C19_AsStated ==
    (\A t \in Instances : threads[t].pc = "idle") =>
        /\ m_global_calls_made = SumOver("m_calls_made", NumInstances)
        /\ m_global_exceptions = SumOver("m_exceptions", NumInstances)
        /\ m_global_budget_overruns = SumOver("m_budget_overruns", NumInstances)

(* ---------------------------------------------------------------------- *)
(* Profiling: get_hotspots, clear_hotspots, enable_profiling               *)
(* ---------------------------------------------------------------------- *)
NumProfilers == 2
Profilers == 1..NumProfilers
\* the program counters that were sampled are 1..MaxSamples
MaxSamples == 2
Intervals == {1000}

\* thread t goes on at pc
At(t, to) == [profilers EXCEPT ![t].pc = to]
NoResult == [has |-> FALSE, hotspots |-> {}]

\* a get_hotspots that keeps profiling_mutex until it returns
get_hotspots_keeps_lock(t) ==
    \/ /\ profilers[t].pc = "idle"
       /\ profiling_mutex = 0
       /\ profiling_mutex' = t
       /\ profilers' = At(t, "get_locked")
       /\ UNCHANGED <<generate_hotspots_mutex, m_profiling_data, m_local_profiling_data>>
    \/ /\ profilers[t].pc = "get_locked"
       /\ IF ~m_profiling_data.has
          THEN /\ profiling_mutex' = 0
               /\ profilers' = [profilers EXCEPT ![t] =
                                  [pc |-> "idle", visited |-> {}, result |-> NoResult]]
          ELSE /\ profilers' = [profilers EXCEPT ![t].pc = "get_unlocked",
                                                 ![t].visited = m_profiling_data.visited]
               /\ UNCHANGED profiling_mutex
       /\ UNCHANGED <<generate_hotspots_mutex, m_profiling_data, m_local_profiling_data>>
    \/ /\ profilers[t].pc = "get_unlocked"
       /\ generate_hotspots_mutex = 0
       /\ generate_hotspots_mutex' = t
       /\ profilers' = At(t, "resolving")
       /\ UNCHANGED <<profiling_mutex, m_profiling_data, m_local_profiling_data>>
    \/ /\ profilers[t].pc = "resolving"
       /\ generate_hotspots_mutex' = 0
       /\ profiling_mutex' = 0
       /\ profilers' = [profilers EXCEPT ![t] =
                          [pc |-> "idle", visited |-> {},
                           result |-> [has |-> TRUE, hotspots |-> profilers[t].visited]]]
       /\ UNCHANGED <<m_profiling_data, m_local_profiling_data>>

\* Sandbox::get_hotspots: under profiling_mutex the data is looked up and
\* copied; the block ends, the mutex is released; then, under
\* generate_hotspots_mutex, the copy is resolved and sorted
get_hotspots(t) ==
    \/ /\ profilers[t].pc = "idle"
       /\ profiling_mutex = 0
       /\ profiling_mutex' = t
       /\ profilers' = At(t, "get_locked")
       /\ UNCHANGED <<generate_hotspots_mutex, m_profiling_data, m_local_profiling_data>>
    \/ /\ profilers[t].pc = "get_locked"
       /\ IF ~m_profiling_data.has
          THEN profilers' = [profilers EXCEPT ![t] =
                               [pc |-> "idle", visited |-> {}, result |-> NoResult]]
          ELSE profilers' = [profilers EXCEPT ![t].pc = "get_unlocked",
                                              ![t].visited = m_profiling_data.visited]
       /\ profiling_mutex' = 0
       /\ UNCHANGED <<generate_hotspots_mutex, m_profiling_data, m_local_profiling_data>>
    \/ /\ profilers[t].pc = "get_unlocked"
       /\ generate_hotspots_mutex = 0
       /\ generate_hotspots_mutex' = t
       /\ profilers' = At(t, "resolving")
       /\ UNCHANGED <<profiling_mutex, m_profiling_data, m_local_profiling_data>>
    \/ /\ profilers[t].pc = "resolving"
       /\ generate_hotspots_mutex' = 0
       /\ profilers' = [profilers EXCEPT ![t] =
                          [pc |-> "idle", visited |-> {},
                           result |-> [has |-> TRUE, hotspots |-> profilers[t].visited]]]
       /\ UNCHANGED <<profiling_mutex, m_profiling_data, m_local_profiling_data>>

\* Sandbox::clear_hotspots: the whole body runs under profiling_mutex
clear_hotspots(t) ==
    \/ /\ profilers[t].pc = "idle"
       /\ profiling_mutex = 0
       /\ profiling_mutex' = t
       /\ profilers' = At(t, "clear_locked")
       /\ UNCHANGED <<generate_hotspots_mutex, m_profiling_data, m_local_profiling_data>>
    \/ /\ profilers[t].pc = "clear_locked"
       /\ m_profiling_data' = IF m_profiling_data.has
                              THEN [m_profiling_data EXCEPT !.visited = {}]
                              ELSE m_profiling_data
       /\ profiling_mutex' = 0
       /\ profilers' = At(t, "idle")
       /\ UNCHANGED <<generate_hotspots_mutex, m_local_profiling_data>>

\* Sandbox::enable_profiling: the data of the instance is set up without
\* the mutex, the shared data under it; disabling drops the data of the
\* instance unless a call is in progress
enable_profiling(t, enable, interval, in_vmcall) ==
    \/ /\ profilers[t].pc = "idle"
       /\ enable
       /\ m_local_profiling_data' = [has |-> TRUE, profiling_interval |-> interval]
       /\ profilers' = At(t, "enable_lock")
       /\ UNCHANGED <<profiling_mutex, generate_hotspots_mutex, m_profiling_data>>
    \/ /\ profilers[t].pc = "enable_lock"
       /\ profiling_mutex = 0
       /\ profiling_mutex' = t
       /\ profilers' = At(t, "enable_locked")
       /\ UNCHANGED <<generate_hotspots_mutex, m_profiling_data, m_local_profiling_data>>
    \/ /\ profilers[t].pc = "enable_locked"
       /\ m_profiling_data' = IF m_profiling_data.has THEN m_profiling_data
                              ELSE [has |-> TRUE, visited |-> {}]
       /\ profiling_mutex' = 0
       /\ profilers' = At(t, "idle")
       /\ UNCHANGED <<generate_hotspots_mutex, m_local_profiling_data>>
    \/ /\ profilers[t].pc = "idle"
       /\ ~enable
       /\ m_local_profiling_data' =
             IF in_vmcall THEN m_local_profiling_data
             ELSE [has |-> FALSE, profiling_interval |-> 0]
       /\ profilers' = At(t, "disabled")
       /\ UNCHANGED <<profiling_mutex, generate_hotspots_mutex, m_profiling_data>>
    \/ /\ profilers[t].pc = "disabled"
       /\ profilers' = At(t, "idle")
       /\ UNCHANGED <<profiling_mutex, generate_hotspots_mutex, m_profiling_data,
                      m_local_profiling_data>>

\* a running call records a sample in the shared data, under the mutex
RecordSample ==
    /\ profiling_mutex = 0
    /\ m_profiling_data.has
    /\ \E sample \in 1..MaxSamples :
          /\ sample \notin m_profiling_data.visited
          /\ m_profiling_data' = [m_profiling_data EXCEPT !.visited = @ \cup {sample}]
    /\ UNCHANGED <<profiling_mutex, generate_hotspots_mutex, m_local_profiling_data,
                   profilers>>

ProfilingFrame == UNCHANGED <<core, config, stats, multi>>

NextProfiling ==
    \/ \E t \in Profilers : get_hotspots(t) /\ ProfilingFrame
    \/ \E t \in Profilers : clear_hotspots(t) /\ ProfilingFrame
    \/ \E t \in Profilers, enable \in BOOLEAN, interval \in Intervals, in_vmcall \in BOOLEAN :
          enable_profiling(t, enable, interval, in_vmcall) /\ ProfilingFrame
    \/ RecordSample /\ ProfilingFrame

InitProfiling ==
    /\ InitConfig /\ InitCore /\ InitStats /\ InitSingle
    /\ profiling_mutex = 0
    /\ generate_hotspots_mutex = 0
    /\ m_profiling_data = [has |-> FALSE, visited |-> {}]
    /\ m_local_profiling_data = [has |-> FALSE, profiling_interval |-> 0]
    /\ profilers = [t \in Profilers |-> [pc |-> "idle", visited |-> {}, result |-> NoResult]]

SpecProfiling == InitProfiling /\ [][NextProfiling]_vars

(* ---------------------------------------------------------------------- *)
(* Properties of the profiling locks                                       *)
(* ---------------------------------------------------------------------- *)
\* where a thread is about to read or write the shared profiling data
AccessPoints == {"get_locked", "clear_locked", "enable_locked"}
\* where get_hotspots works on its copy
AfterCopy == {"get_unlocked", "resolving"}

\* C20: a thread that is about to read or write the shared profiling data
\* in get_hotspots, clear_hotspots or enable_profiling holds profiling_mutex,
\* and every step of these functions that changes the shared data or copies
\* it is taken by the holder; a get_hotspots that has copied the data holds
\* profiling_mutex no longer, so the mutex is free or with another thread
\* during the resolution; no step of another thread changes the copy, and
\* the result is the resolved copy.
C20_ProfilingLocked ==
    /\ [](\A t \in Profilers :
            /\ profilers[t].pc \in AccessPoints => profiling_mutex = t
            /\ profilers[t].pc \in AfterCopy => profiling_mutex # t)
    /\ [][\A t \in Profilers :
            /\ (profilers'[t] # profilers[t]
                /\ (m_profiling_data' # m_profiling_data
                    \/ (profilers'[t].pc = "get_unlocked" /\ profilers[t].pc = "get_locked")))
                  => profiling_mutex = t
            /\ (profilers[t].pc \in AfterCopy /\ profilers'[t].pc \in AfterCopy)
                  => profilers'[t].visited = profilers[t].visited
            /\ (profilers[t].pc = "resolving" /\ profilers'[t].pc = "idle")
                  => profilers'[t].result = [has |-> TRUE, hotspots |-> profilers[t].visited]
         ]_vars

\* C20 witness: a get_hotspots resolves its copy of two samples while
\* another thread, inside clear_hotspots, holds profiling_mutex and the
\* shared data is already empty again
C20_Witness ==
    \E t, u \in Profilers :
       /\ profilers[t].pc = "resolving"
       /\ profilers[t].visited = 1..MaxSamples
       /\ profilers[u].pc = "clear_locked"
       /\ profiling_mutex = u
       /\ m_profiling_data.visited = {}

(* ---------------------------------------------------------------------- *)
(* Nested calls that use nodes                                             *)
(* ---------------------------------------------------------------------- *)
\* api_node with Node_Op::QUEUE_FREE, on the sandbox's own node or another
SysQueueFree ==
    /\ pc = "guest"
    /\ \E addr \in AddrOrNull, is_self \in BOOLEAN :
          Handled("api_node",
                  api_node(state, "QUEUE_FREE", addr, <<GV("STRING", 0)>>, is_self,
                           NullAddr, <<>>, m_max_refs),
                  Raw("QUEUE_FREE", {addr}, {}))

NextDeep ==
    \/ VmCall(MaxCallsDeep) /\ UNCHANGED aside
    \/ set_tree_base /\ UNCHANGED aside
    \/ SysVcallReenter({GV("CALLABLE", h) : h \in Handles},
                       {<<>>, <<GV("CALLABLE", 0)>>}, MaxCallsDeep) /\ UNCHANGED aside
    \/ SysVcallFinish /\ UNCHANGED aside
    \/ SysGetNode /\ UNCHANGED aside
    \/ SysQueueFree /\ UNCHANGED aside
    \/ GuestReturn /\ UNCHANGED aside
    \/ Timeout /\ UNCHANGED aside

SpecDeep == Init /\ [][NextDeep]_vars

(* ---------------------------------------------------------------------- *)
(* Properties of the node operations                                       *)
(* ---------------------------------------------------------------------- *)
\* Node_Op::QUEUE_FREE on the sandbox's own node, in the current scope
QueueFreeSelf(addr) ==
    api_node(state, "QUEUE_FREE", addr, <<GV("STRING", 0)>>, TRUE, NullAddr, <<>>,
             m_max_refs)

\* C21: in every state and at every call depth, QUEUE_FREE whose target is
\* the sandbox's own node raises an error, queues no node and leaves the
\* scope as it was; a step that ends in this error is a QUEUE_FREE that
\* touched no node and ended the call with an exception.
C21_NoSelfDestruct ==
    /\ [](\A addr \in AddrOrNull :
            /\ QueueFreeSelf(addr).err # "none"
            /\ QueueFreeSelf(addr).touched = {}
            /\ QueueFreeSelf(addr).st = state)
    /\ [][last'.err = "CannotQueueFreeSandbox" =>
            /\ last'.op = "api_node"
            /\ last'.sub = "QUEUE_FREE"
            /\ last'.touched = {}
            /\ last'.end = "exception"
            /\ \A a \in last'.raw : is_scoped_object(state, a)]_vars

\* C21 witness: a nested call asked to queue the sandbox's node, which its
\* scope had admitted; the call ended with the error and the outer call
\* goes on
C21_Witness ==
    /\ last.op = "api_node"
    /\ last.sub = "QUEUE_FREE"
    /\ last.err = "CannotQueueFreeSandbox"
    /\ last.raw # {}
    /\ pc = "vcall_ret"

(* ---------------------------------------------------------------------- *)
(* Properties of api_get_obj                                               *)
(* ---------------------------------------------------------------------- *)
\* guest side: Object(uint64_t addr), and Object(name), which keeps the
\* result of the system call as its address
Object(addr) == [m_address |-> addr]
ObjectByName(result) == Object(result)
\* guest side: Object::is_valid
is_valid(o) == o.m_address # 0

\* the names api_get_obj serves in the state the step starts from
Served(name) ==
    \/ name \in allowed_objects
    \/ name = "SceneTree" /\ m_tree_base # NullAddr

\* C22: api_get_obj raises no error; it admits an object, changes the scope
\* or returns a non-zero address only for a name of the allow list, or for
\* SceneTree with a tree base; for every other name, and for SceneTree
\* without a tree base, it returns 0, leaves every scope as it was and admits
\* nothing, the call goes on, and the guest's Object built from the result
\* is not valid.
C22_GetObjAllowList ==
    [][last'.op = "api_get_obj" =>
         /\ last'.err = "none"
         /\ pc' = "guest"
         /\ (last'.objs # {} \/ m_states' # m_states \/ last'.res # 0) => Served(last'.sub)
         /\ ~Served(last'.sub) =>
               /\ last'.res = 0
               /\ last'.objs = {}
               /\ m_states' = m_states
               /\ frames' = frames
               /\ ~is_valid(ObjectByName(last'.res))
         /\ last'.res # 0 =>
               /\ is_scoped_object(m_states'[m_current_state], last'.res)
               /\ is_valid(ObjectByName(last'.res))]_vars

\* C22 witness: with an object of the allow list admitted before, the guest
\* asked for SceneTree while no tree base was configured and got 0
C22_Witness ==
    /\ last.op = "api_get_obj"
    /\ last.sub = "SceneTree"
    /\ m_tree_base = NullAddr
    /\ last.res = 0
    /\ state.scoped_objects # <<>>
    /\ pc = "guest"

\* C22 witness of the other case: a name that is not on the list
C22_WitnessUnknown ==
    /\ last.op = "api_get_obj"
    /\ last.sub = "Secret"
    /\ last.res = 0

(* ---------------------------------------------------------------------- *)
(* Properties of api_get_node                                              *)
(* ---------------------------------------------------------------------- *)
\* C23: api_get_node with no base address (addr == 0) while no tree base is
\* configured returns 0 whatever node the path would name: no error is
\* raised and the call goes on, no node is dereferenced, no object is
\* admitted and every scope stays as it was.
C23_GetNodeNoTreeBase ==
    [][(last'.op = "api_get_node" /\ last'.raw = {} /\ m_tree_base = NullAddr) =>
         /\ last'.res = 0
         /\ last'.err = "none"
         /\ pc' = "guest"
         /\ last'.touched = {}
         /\ last'.objs = {}
         /\ m_states' = m_states
         /\ frames' = frames]_vars

\* C23 witness: inside a call, api_get_node with addr == 0 has returned 0
\* while no tree base was configured
C23_Witness ==
    /\ last.op = "api_get_node"
    /\ last.raw = {}
    /\ m_tree_base = NullAddr
    /\ last.res = 0
    /\ last.touched = {}
    /\ pc = "guest"

(* ---------------------------------------------------------------------- *)
(* Creating an Array and pushing to it                                     *)
(* ---------------------------------------------------------------------- *)
\* cap on the entries of all scopes, and the reference limit, where Arrays
\* are created
MaxArrEntries == 3

\* guest data of api_vcreate: a null address, or a vector of GuestVariants
NoData == [null |-> TRUE, vec |-> <<>>]
Data(vec) == [null |-> FALSE, vec |-> vec]
PackedTypes ==
    {"PACKED_BYTE_ARRAY", "PACKED_FLOAT32_ARRAY", "PACKED_FLOAT64_ARRAY",
     "PACKED_INT32_ARRAY", "PACKED_INT64_ARRAY"}

\* api_vcreate: a string from guest memory, an Array from a vector of
\* GuestVariants or empty, an empty Dictionary, a packed array; the new
\* Variant is owned by the scope and its handle is written to vp
api_vcreate(s, type, method, gdata, max_refs) ==
    LET Made(var) ==
           LET c == create_scoped_variant(s, var, max_refs)
           IN  IF c.err # "none" THEN Fail(s, c.err)
               ELSE R(c.st, "none", c.idx, {c.idx}, {}, {})
    IN  IF type \in {"STRING", "STRING_NAME", "NODE_PATH"}
        THEN IF method \in {0, 2} THEN Made(StrV(<<97>>))
             ELSE Fail(s, "UnsupportedMethod")
        ELSE IF type = "ARRAY"
        THEN IF gdata.null THEN Made(ArrV(<<>>))
             ELSE LET d == DecodeArgs(s, gdata.vec)
                  IN  IF d.err # "none" THEN Fail(s, d.err) ELSE Made(ArrV(d.vars))
        ELSE IF type = "DICTIONARY" THEN Made(DictV(<<>>))
        ELSE IF type \in PackedTypes THEN Made([type |-> type, val |-> <<>>])
        ELSE Fail(s, "UnsupportedVariantType")

\* api_array_size
api_array_size(s, arr_idx) ==
    LET opt == get_scoped_variant(s, arr_idx)
    IN  IF ~opt.has \/ opt.var.type # "ARRAY" THEN Fail(s, "InvalidArrayObject")
        ELSE R(s, "none", Len(opt.var.val), {}, {}, {})

SysVcreate ==
    /\ pc = "guest"
    /\ \E type \in {"STRING", "ARRAY", "DICTIONARY", "PACKED_BYTE_ARRAY", "INT"},
          method \in {0, 1}, gdata \in {NoData, Data(<<GV("INT", 0)>>)} :
          /\ type # "STRING" => method = 0
          /\ type # "ARRAY" => gdata = NoData
          /\ HandledUpTo(MaxArrEntries, "api_vcreate",
                         api_vcreate(state, type, method, gdata, m_max_refs),
                         Raw(IF type = "ARRAY" /\ ~gdata.null THEN "ARRAY_DATA" ELSE type,
                             {}, {}))

\* api_array_ops with Array_Op::CREATE or Array_Op::PUSH_BACK
SysArrayCreatePush ==
    /\ pc = "guest"
    /\ \E op \in {"CREATE", "PUSH_BACK"}, arr_idx \in 0..MaxArrEntries :
          LET r == api_array_ops(state, op, arr_idx, 0, GV("INT", 0), m_max_refs)
              after == get_scoped_variant(r.st, arr_idx)
          IN  /\ (r.err = "none" /\ after.has) => Len(after.var.val) <= MaxArrLen
              /\ HandledUpTo(MaxArrEntries, "api_array_ops", r, Raw(op, {}, {arr_idx}))

SysArraySize ==
    /\ pc = "guest"
    /\ \E arr_idx \in 0..MaxArrEntries :
          HandledUpTo(MaxArrEntries, "api_array_size", api_array_size(state, arr_idx),
                      Raw("", {}, {arr_idx}))

NextArr ==
    \/ VmCall(MaxCalls) /\ UNCHANGED aside
    \/ SysVcreate /\ UNCHANGED aside
    \/ SysArrayCreatePush /\ UNCHANGED aside
    \/ SysArraySize /\ UNCHANGED aside
    \/ GuestReturn /\ UNCHANGED aside
    \/ Timeout /\ UNCHANGED aside

\* the reference limit is set to MaxArrEntries before the first call
InitArr ==
    /\ m_max_refs = set_max_refs(MaxArrEntries, MaxRefs)
    /\ m_memory_max = MAX_VMEM
    /\ m_insn_max = MAX_INSTRUCTIONS
    /\ InitCore /\ InitStats /\ InitSingle /\ InitNoProfiling
    /\ m_states[0] = EmptyState

SpecArr == InitArr /\ [][NextArr]_vars

(* ---------------------------------------------------------------------- *)
(* Properties of Array creation                                            *)
(* ---------------------------------------------------------------------- *)
\* the scope of the current call after the step
StateAfter == m_states'[m_current_state']
\* the step has created an Array with the array-create operation
ArrayCreated ==
    /\ last'.err = "none"
    /\ \/ last'.op = "api_array_ops" /\ last'.sub = "CREATE"
       \/ last'.op = "api_vcreate" /\ last'.sub = "ARRAY"
\* the step has pushed a value to the Array of handle h
PushedBack(h) ==
    /\ last'.err = "none"
    /\ last'.op = "api_array_ops" /\ last'.sub = "PUSH_BACK"
    /\ h \in last'.hraw

\* C24 as stated: an Array that the array-create operation has just created
\* reads back size 0 from api_array_size on the returned handle, and every
\* PUSH_BACK on a handle raises what api_array_size reads back by one; so n
\* PUSH_BACK after the creation read back n.
C24_AsStated ==
    [][/\ ArrayCreated => api_array_size(StateAfter, last'.res).res = 0
       /\ \A h \in 0..MaxArrEntries :
             PushedBack(h) =>
                api_array_size(StateAfter, h).res = api_array_size(state, h).res + 1]_vars

\* the same for an Array that api_vcreate has created
VcreateArrayEmpty ==
    [][(ArrayCreated /\ last'.op = "api_vcreate") =>
          api_array_size(StateAfter, last'.res).res = 0]_vars

(* ---------------------------------------------------------------------- *)
(* Dictionary: GET and SET in one call                                     *)
(* ---------------------------------------------------------------------- *)
\* the keys and the values the guest passes: integers, and the String of
\* handle 1
DictKeys == {GV("INT", 1), GV("INT", 2)}
DictValues == {GV("INT", 1), GV("INT", 2), GV("STRING", 1)}

\* the host passes an empty Dictionary (handle 0) and a String (handle 1)
VmCallDict ==
    /\ pc = "host"
    /\ vmcall_internal(<<DictV(<<>>), StrV(<<97>>)>>, MaxCalls)

\* api_dict_ops with Dictionary_Op::GET, SET or ERASE
SysDictGetSet ==
    /\ pc = "guest"
    /\ \E op \in {"GET", "SET", "ERASE"}, dict_idx \in 0..MaxArrEntries, vkey \in DictKeys,
          vaddr \in DictValues :
          LET r == api_dict_ops(state, op, dict_idx, vkey, vaddr, m_max_refs)
              after == get_scoped_variant(r.st, dict_idx)
          IN  /\ (r.err = "none" /\ after.has) => Len(after.var.val) <= MaxArrLen
              /\ op # "SET" => vaddr = GV("INT", 1)
              /\ HandledUpTo(MaxArrEntries, "api_dict_ops", r, Raw(op, {}, {dict_idx}))

NextDict ==
    \/ VmCallDict /\ UNCHANGED aside
    \/ SysDictGetSet /\ UNCHANGED aside
    \/ GuestReturn /\ UNCHANGED aside
    \/ Timeout /\ UNCHANGED aside

SpecDict == InitArr /\ [][NextDict]_vars

(* ---------------------------------------------------------------------- *)
(* Properties of the Dictionary operations                                 *)
(* ---------------------------------------------------------------------- *)
\* the Variant the guest holds after the handler result r: the scoped
\* Variant of the handle written, or the inline integer (0 is Nil: the
\* values passed are not 0)
ReadBack(r) ==
    IF r.hnds # {} THEN get_scoped_variant(r.st, r.res).var
    ELSE IF r.res = 0 THEN NilV
    ELSE IntV(r.res)

\* Dictionary_Op::SET(k, v) on handle h in scope s, then GET(k)
SetThenGet(s, h, k, v) ==
    api_dict_ops(api_dict_ops(s, "SET", h, k, v, m_max_refs).st, "GET", h, k,
                 GV("NIL", 0), m_max_refs)

\* C25: in every scope a call reaches, also one in which a GET of the then
\* missing key was issued before, for every Dictionary handle h, key k and
\* value v: when SET(k, v) succeeds, the GET(k) that follows raises no error
\* other than the reference limit and hands back a value equal to v.
C25_SetThenGet ==
    \A h \in 0..MaxArrEntries, k \in DictKeys, v \in DictValues :
       api_dict_ops(state, "SET", h, k, v, m_max_refs).err = "none" =>
          /\ SetThenGet(state, h, k, v).err \in {"none", "MaxRefs"}
          /\ SetThenGet(state, h, k, v).err = "none" =>
                ReadBack(SetThenGet(state, h, k, v)) = toVariant(state, v).var

\* C25 witness: in a call in which GET of the missing key 1 was issued and
\* has left that key with an empty value, key 2 was set to 2 and the GET of
\* key 2 that followed has handed 2 back
C25_Witness ==
    /\ pc = "guest"
    /\ last.op = "api_dict_ops" /\ last.sub = "GET" /\ last.err = "none"
    /\ last.res = 2
    /\ get_scoped_variant(state, 0).var.val = <<<<IntV(1), NilV>>, <<IntV(2), IntV(2)>>>>

\* C25 as stated: the GET(k) that follows a successful SET(k, v) hands back
\* a value equal to v
C25_AsStated ==
    \A h \in 0..MaxArrEntries, k \in DictKeys, v \in DictValues :
       api_dict_ops(state, "SET", h, k, v, m_max_refs).err = "none" =>
          /\ SetThenGet(state, h, k, v).err = "none"
          /\ ReadBack(SetThenGet(state, h, k, v)) = toVariant(state, v).var

(* ---------------------------------------------------------------------- *)
(* Properties of the Variant codec                                         *)
(* ---------------------------------------------------------------------- *)
\* the primitive values: booleans, integers, floats and vectors
PrimitiveValues ==
    {BoolV(b) : b \in BOOLEAN} \cup {IntV(n) : n \in -1..1}
    \cup {FloatV(f) : f \in 0..1} \cup {Vector2V(<<0, 1>>), Vector3V(<<0, 1, 1>>)}
\* the values of a reference kind, and the objects
ReferenceValues ==
    {StrV(<<>>), StrV(<<97>>), ArrV(<<IntV(1)>>), DictV(<<>>), CallableV(1)}
    \cup {ObjV(a) : a \in Addr}

StaysActive(l) == l <= m_current_state /\ l <= m_current_state'

\* C27: in every level that stays in use across a step, whatever the step
\* (add_owned, add_weak, another system call, a nested call and its
\* return), every handle of the level keeps designating the entry it
\* designated; and a step that adds entries to the current level hands back
\* handles that designated nothing before, so no handle is returned twice.
C27_HandlesStable ==
    [][/\ \A l \in Levels :
             StaysActive(l) =>
                /\ Len(m_states[l].scoped_variants) <= Len(m_states'[l].scoped_variants)
                /\ \A i \in 1..Len(m_states[l].scoped_variants) :
                      /\ m_states'[l].scoped_variants[i] = m_states[l].scoped_variants[i]
                      /\ Deref(m_states'[l], m_states'[l].scoped_variants[i])
                            = Deref(m_states[l], m_states[l].scoped_variants[i])
       /\ (m_current_state' = m_current_state /\ last'.hnds # {}
           /\ Len(StateAfter.scoped_variants) > Len(state.scoped_variants)) =>
             \A h \in last'.hnds :
                /\ ~get_scoped_variant(state, h).has
                /\ get_scoped_variant(StateAfter, h).has
      ]_vars

\* C27 witness: in a nested call, whose argument is handle 0 (add_weak), a
\* String was created (add_owned) and got handle 1; handle 0 still
\* designates the argument
C27_Witness ==
    /\ pc = "guest"
    /\ Len(frames) >= 2
    /\ last.op = "api_string_create" /\ last.err = "none" /\ last.res = 1
    /\ Len(state.scoped_variants) = 2
    /\ ~state.scoped_variants[1].own
    /\ state.scoped_variants[2].own
    /\ get_scoped_variant(state, 0).var.type = "CALLABLE"

(* ---------------------------------------------------------------------- *)
(* Properties of leave()                                                   *)
(* ---------------------------------------------------------------------- *)
\* the call-state stack as leave() finds it
StackNow == [level |-> m_level, cur |-> m_current_state, states |-> m_states]

\* C28: in every state of a running call whose scope is empty, leave()
\* changes nothing but the depth, which it decrements by 1, the scope of the
\* caller becoming current; and a step that ends a call whose scope is empty
\* leaves the scopes of all levels, the call counter, the statistics and the
\* configuration as they were.
C28_LeaveEmptyLevel ==
    /\ []((pc = "guest" /\ state = EmptyState) =>
            /\ leave(StackNow, m_max_refs).states = m_states
            /\ leave(StackNow, m_max_refs).level = m_level - 1
            /\ leave(StackNow, m_max_refs).cur = m_current_state - 1)
    /\ [][(Len(frames') < Len(frames) /\ state = EmptyState) =>
            /\ m_states' = m_states
            /\ m_level' = m_level - 1
            /\ m_current_state' = m_current_state - 1
            /\ UNCHANGED <<m_calls_made, m_tree_base, config, stats>>]_vars

\* C28 witness: a nested call that had no argument and was handed nothing
\* has returned; the scope of its caller and the permanent scope hold entries
C28_Witness ==
    /\ pc = "vcall_ret"
    /\ last.op = "return"
    /\ last.frame.args = <<>> /\ last.frame.hnds = {} /\ last.frame.objs = {}
    /\ state # EmptyState
    /\ m_states[0] # EmptyState
    /\ m_states[m_current_state + 1] = EmptyState

(* ---------------------------------------------------------------------- *)
(* Properties of a charge of 0                                             *)
(* ---------------------------------------------------------------------- *)
\* n charges of 0 on the counter
RECURSIVE ChargeZero(_, _)
ChargeZero(counter, n) ==
    IF n = 0 THEN counter ELSE ChargeZero(penalize(counter, 0), n - 1)

AdmittedHere == TopFrame.objs
\* the addresses in the list of level l
AdmittedIn(l) ==
    {m_states[l].scoped_objects[i] : i \in 1..Len(m_states[l].scoped_objects)}

\* C30: during a call, is_scoped_object(a) is true exactly for the addresses
\* admitted into the level of that call since it started; an address that
\* was admitted into another level only, the permanent level 0 and the level
\* of the caller included, is rejected by is_scoped_object and by the
\* handlers that take an address; and a node operation that raises nothing
\* was given an address admitted into the level of its call.
C30_CurrentLevelOnly ==
    /\ [](pc = "guest" =>
            \A a \in Addr :
               /\ is_scoped_object(state, a) <=> a \in AdmittedHere
               /\ (a \notin AdmittedHere /\ \E l \in Levels : a \in AdmittedIn(l)) =>
                     /\ ~is_scoped_object(state, a)
                     /\ get_node_from_address(state, a) = "NodeObjectNotScoped"
                     /\ \A node \in AddrOrNull :
                           /\ api_get_node(state, a, m_tree_base, node).res = 0
                           /\ api_get_node(state, a, m_tree_base, node).st = state)
    /\ [][(last'.op = "api_node" /\ last'.err = "none") =>
             last'.raw \subseteq AdmittedHere]_vars

\* C30 witness: a nested call gave api_node an address that its caller's
\* level and the permanent level 0 had admitted and its own level had not;
\* the address was rejected and the nested call ended
C30_Witness ==
    /\ pc = "vcall_ret"
    /\ last.op = "api_node" /\ last.err = "NodeObjectNotScoped"
    /\ \E a \in Addr :
          /\ last.raw = {a}
          /\ a \notin last.frame.objs
          /\ is_scoped_object(state, a)
          /\ a \in AdmittedIn(0)

(* ---------------------------------------------------------------------- *)
(* Properties of the admitted set within a call                            *)
(* ---------------------------------------------------------------------- *)
\* the step is a system call of the running call that has come back to the
\* guest: the call goes on at the same level
SyscallReturned ==
    /\ pc = "guest" /\ pc' = "guest"
    /\ m_level' = m_level
    /\ last'.op # "vmcall"

\* C31: a system call that comes back to the guest removes no address from
\* the admitted set of the call's level; and after a QUEUE_FREE that raised
\* nothing, the address it was given is still admitted and still passes the
\* check of get_node_from_address.
C31_AdmittedSetGrows ==
    [][/\ SyscallReturned =>
             \A a \in AddrOrNull : is_scoped_object(state, a) => is_scoped_object(state', a)
       /\ (last'.op = "api_node" /\ last'.sub = "QUEUE_FREE" /\ last'.err = "none") =>
             \A a \in last'.raw :
                /\ is_scoped_object(state', a)
                /\ get_node_from_address(state', a) = "none"]_vars

\* C31 witness: QUEUE_FREE on an admitted node has come back to the guest,
\* and the node's address is still admitted
C31_Witness ==
    /\ pc = "guest"
    /\ last.op = "api_node" /\ last.sub = "QUEUE_FREE" /\ last.err = "none"
    /\ \E a \in Addr : last.raw = {a} /\ last.touched = {a} /\ is_scoped_object(state, a)

(* ---------------------------------------------------------------------- *)
(* Evaluating an operator on two guest values                              *)
(* ---------------------------------------------------------------------- *)
\* the operators the guest asks for, and what Variant::evaluate of the
\* engine can answer: not valid, or valid with a result
EvalOps == {"OP_EQUAL", "OP_NOT_EQUAL", "OP_LESS"}
Evals ==
    {[valid |-> FALSE, ret |-> NilV], [valid |-> TRUE, ret |-> BoolV(TRUE)],
     [valid |-> TRUE, ret |-> BoolV(FALSE)], [valid |-> TRUE, ret |-> IntV(1)]}
EvalOperands == {GV("OBJECT", a) : a \in AddrOrNull} \cup {GV("INT", 1)}

\* the result of api_veval: the result of a handler (see R) with the flag
\* handed back as the integer and gv, the value written to retp
Evaluated(s, c, valid, touched) ==
    IF c.err # "none" THEN [st |-> s, err |-> c.err, res |-> -1, hnds |-> {}, objs |-> {},
                            touched |-> touched, gv |-> GV("NIL", 0)]
    ELSE [st |-> c.st, err |-> "none", res |-> IF valid THEN 1 ELSE 0,
          hnds |-> HndsOf(c.gv), objs |-> ObjsOf(c.gv), touched |-> touched, gv |-> c.gv]
EvalFails(s, err) == Evaluated(s, [err |-> err], FALSE, {})

\* api_veval without the special case for the equality of two objects
api_veval_no_special_case(s, op, ap, bp, ev, first, max_refs) ==
    IF ap.type = "OBJECT" /\ bp.type = "OBJECT"
    THEN LET a == get_object_from_address(s, ap.v)
             b == get_object_from_address(s, bp.v)
         IN  IF a # "none" THEN EvalFails(s, a)
             ELSE IF b # "none" THEN EvalFails(s, b)
             ELSE Evaluated(s, set(s, ev.ret, TRUE, max_refs), ev.valid, {ap.v, bp.v})
    ELSE LET a == toVariant(s, ap)
             b == toVariant(s, bp)
         IN  IF a.err # "none" /\ (first = "a" \/ b.err = "none") THEN EvalFails(s, a.err)
             ELSE IF b.err # "none" THEN EvalFails(s, b.err)
             ELSE Evaluated(s, set(s, ev.ret, FALSE, max_refs), ev.valid,
                            ObjsOf(ap) \cup ObjsOf(bp))

\* api_veval; ev: the answer of Variant::evaluate; first: which of the two
\* operands is decoded first where the order is left to the compiler
api_veval(s, op, ap, bp, ev, first, max_refs) ==
    IF ap.type = "OBJECT" /\ bp.type = "OBJECT"
    THEN IF op = "OP_EQUAL"
         THEN Evaluated(s, set(s, BoolV(ap.v = bp.v), FALSE, max_refs), TRUE, {})
         ELSE LET a == get_object_from_address(s, ap.v)
                  b == get_object_from_address(s, bp.v)
              IN  IF a # "none" THEN EvalFails(s, a)
                  ELSE IF b # "none" THEN EvalFails(s, b)
                  ELSE Evaluated(s, set(s, ev.ret, TRUE, max_refs), ev.valid, {ap.v, bp.v})
    ELSE LET a == toVariant(s, ap)
             b == toVariant(s, bp)
         IN  IF a.err # "none" /\ (first = "a" \/ b.err = "none") THEN EvalFails(s, a.err)
             ELSE IF b.err # "none" THEN EvalFails(s, b.err)
             ELSE Evaluated(s, set(s, ev.ret, FALSE, max_refs), ev.valid,
                            ObjsOf(ap) \cup ObjsOf(bp))

SysVeval ==
    /\ pc = "guest"
    /\ \E op \in EvalOps, ap \in EvalOperands, bp \in EvalOperands, ev \in Evals,
          first \in {"a", "b"} :
          /\ (ap.type = "OBJECT" /\ bp.type = "OBJECT") => first = "a"
          /\ Handled("api_veval", api_veval(state, op, ap, bp, ev, first, m_max_refs),
                     Raw(op, {gv.v : gv \in {g \in {ap, bp} : g.type = "OBJECT"}}, {}))

NextEval ==
    \/ VmCall(MaxCalls) /\ UNCHANGED aside
    \/ set_tree_base /\ UNCHANGED aside
    \/ SysGetNode /\ UNCHANGED aside
    \/ SysVeval /\ UNCHANGED aside
    \/ GuestReturn /\ UNCHANGED aside
    \/ Timeout /\ UNCHANGED aside

SpecEval == InitSys /\ [][NextEval]_vars

(* ---------------------------------------------------------------------- *)
(* Properties of api_veval on two objects                                  *)
(* ---------------------------------------------------------------------- *)
\* api_veval on the objects at a and b in the current scope
EvalObjects(op, a, b, ev) ==
    api_veval(state, op, GV("OBJECT", a), GV("OBJECT", b), ev, "a", m_max_refs)

\* C33: during a call, for all addresses a and b, the null address and
\* addresses that are not admitted included: OP_EQUAL raises nothing, reports
\* valid, writes the boolean a = b, touches no object and leaves the scope
\* as it is; every other operator raises an error and touches no object
\* unless both addresses are non-null and admitted, and then raises nothing
\* and hands the engine's answer back.
C33_EvalObjects ==
    pc = "guest" =>
       \A a \in AddrOrNull, b \in AddrOrNull, ev \in Evals :
          /\ EvalObjects("OP_EQUAL", a, b, ev).err = "none"
          /\ EvalObjects("OP_EQUAL", a, b, ev).res = 1
          /\ EvalObjects("OP_EQUAL", a, b, ev).gv = GV("BOOL", IF a = b THEN 1 ELSE 0)
          /\ EvalObjects("OP_EQUAL", a, b, ev).touched = {}
          /\ EvalObjects("OP_EQUAL", a, b, ev).st = state
          /\ \A op \in EvalOps \ {"OP_EQUAL"} :
                IF \A x \in {a, b} : x # NullAddr /\ is_scoped_object(state, x)
                THEN /\ EvalObjects(op, a, b, ev).err = "none"
                     /\ EvalObjects(op, a, b, ev).res = (IF ev.valid THEN 1 ELSE 0)
                ELSE /\ EvalObjects(op, a, b, ev).err \in
                           {"ObjectNull", "ObjectNotScoped"}
                     /\ EvalObjects(op, a, b, ev).touched = {}
                     /\ EvalObjects(op, a, b, ev).st = state

\* C33 witness: the guest compared two different addresses for equality,
\* neither of them admitted, and the call goes on with the answer false
C33_Witness ==
    /\ pc = "guest"
    /\ last.op = "api_veval" /\ last.sub = "OP_EQUAL" /\ last.err = "none"
    /\ last.res = 1
    /\ Cardinality(last.raw) = 2
    /\ \A a \in last.raw : a # NullAddr /\ ~is_scoped_object(state, a)

\* a second witness: an ordering of two objects, one of them not admitted,
\* has ended the call
C33_WitnessOther ==
    /\ last.op = "api_veval" /\ last.sub = "OP_LESS" /\ last.err = "ObjectNotScoped"
    /\ last.end = "exception"
    /\ \E a \in last.raw : a \in last.frame.objs

(* ---------------------------------------------------------------------- *)
(* Reading one element of an Array or a String                             *)
(* ---------------------------------------------------------------------- *)
\* an api_array_at that accepts the index that equals the size and reads an
\* empty Variant there
api_array_at_inclusive(s, arr_idx, idx, max_refs) ==
    LET opt == get_scoped_variant(s, arr_idx)
    IN  IF ~opt.has \/ opt.var.type # "ARRAY" THEN Fail(s, "InvalidArrayObject")
        ELSE IF idx < 0 \/ idx > Len(opt.var.val) THEN Fail(s, "ArrayIndexOutOfBounds")
        ELSE IF idx = Len(opt.var.val) THEN Written(s, set(s, NilV, FALSE, max_refs), {})
        ELSE Written(s, set(s, opt.var.val[idx + 1], FALSE, max_refs), {})

\* api_array_at: the element is written to vret with GuestVariant::set
api_array_at(s, arr_idx, idx, max_refs) ==
    LET opt == get_scoped_variant(s, arr_idx)
    IN  IF ~opt.has \/ opt.var.type # "ARRAY" THEN Fail(s, "InvalidArrayObject")
        ELSE IF idx < 0 \/ idx >= Len(opt.var.val) THEN Fail(s, "ArrayIndexOutOfBounds")
        ELSE Written(s, set(s, opt.var.val[idx + 1], FALSE, max_refs), {})

\* api_string_at: the character becomes a new scoped Variant (the code
\* point), whose handle is the result
api_string_at(s, str_idx, index, max_refs) ==
    LET opt == get_scoped_variant(s, str_idx)
    IN  IF ~opt.has \/ opt.var.type # "STRING" THEN Fail(s, "InvalidStringObject")
        ELSE IF index < 0 \/ index >= Len(opt.var.val)
        THEN Fail(s, "StringIndexOutOfBounds")
        ELSE LET c == create_scoped_variant(s, IntV(opt.var.val[index + 1]), max_refs)
             IN  IF c.err # "none" THEN Fail(s, c.err)
                 ELSE R(c.st, "none", c.idx, {c.idx}, {}, {})

\* the indices the guest passes, and the arguments of the host: Arrays of
\* integers, Strings and objects, admitted or not, and a String of two
\* characters
AtIndices == -1..3
AtArgs ==
    {<<ArrV(<<IntV(1), StrV(<<98>>), ObjV(1)>>), StrV(<<97, 98>>)>>,
     <<StrV(<<97, 98>>)>>, <<ObjV(1), ArrV(<<ObjV(1), IntV(2)>>)>>, <<ArrV(<<>>)>>}

VmCallAt ==
    /\ pc = "host"
    /\ \E args \in AtArgs : vmcall_internal(args, MaxCalls)

SysArrayAt ==
    /\ pc = "guest"
    /\ \E arr_idx \in 0..MaxArrEntries, idx \in AtIndices :
          HandledUpTo(MaxArrEntries, "api_array_at",
                      api_array_at(state, arr_idx, idx, m_max_refs),
                      Raw("", {}, {arr_idx}))

SysStringAt ==
    /\ pc = "guest"
    /\ \E str_idx \in 0..MaxArrEntries, index \in AtIndices :
          HandledUpTo(MaxArrEntries, "api_string_at",
                      api_string_at(state, str_idx, index, m_max_refs),
                      Raw("", {}, {str_idx}))

NextAt ==
    \/ VmCallAt /\ UNCHANGED aside
    \/ SysArrayAt /\ UNCHANGED aside
    \/ SysStringAt /\ UNCHANGED aside
    \/ GuestReturn /\ UNCHANGED aside
    \/ Timeout /\ UNCHANGED aside

SpecAt == InitArr /\ [][NextAt]_vars

(* ---------------------------------------------------------------------- *)
(* Properties of the element reads                                         *)
(* ---------------------------------------------------------------------- *)
\* the collection of kind type at handle h of the current scope, if any
CollectionAt(h, type) ==
    LET opt == get_scoped_variant(state, h)
    IN  [has |-> opt.has /\ opt.var.type = type,
         val |-> IF opt.has /\ opt.var.type = type THEN opt.var.val ELSE <<>>]
InRange(idx, coll) == idx >= 0 /\ idx < Len(coll.val)
\* the Variant the guest holds after the handler result r
ElementRead(r) == IF r.objs # {} THEN ObjV(r.res) ELSE ReadBack(r)
ArrayAt(h, idx) == api_array_at(state, h, idx, m_max_refs)
StringAt(h, idx) == api_string_at(state, h, idx, m_max_refs)

\* where the handle is invalid or of the wrong kind the read raises the
\* 'invalid object' error and leaves the scope as it is; where it is valid
\* the out-of-bounds error is raised exactly for the indices outside
\* 0..length-1
ChecksBeforeRead(h, idx) ==
    /\ ~CollectionAt(h, "ARRAY").has =>
          ArrayAt(h, idx).err = "InvalidArrayObject" /\ ArrayAt(h, idx).st = state
    /\ ~CollectionAt(h, "STRING").has =>
          StringAt(h, idx).err = "InvalidStringObject" /\ StringAt(h, idx).st = state
    /\ CollectionAt(h, "ARRAY").has =>
          (ArrayAt(h, idx).err = "ArrayIndexOutOfBounds"
             <=> ~InRange(idx, CollectionAt(h, "ARRAY")))
    /\ CollectionAt(h, "STRING").has =>
          (StringAt(h, idx).err = "StringIndexOutOfBounds"
             <=> ~InRange(idx, CollectionAt(h, "STRING")))

\* C34 as stated: with a valid handle and an index within range the read
\* raises nothing and hands back the element at the index.
C34_AsStated ==
    pc = "guest" =>
       \A h \in 0..MaxArrEntries, idx \in AtIndices :
          /\ ChecksBeforeRead(h, idx)
          /\ (CollectionAt(h, "ARRAY").has /\ InRange(idx, CollectionAt(h, "ARRAY"))) =>
                /\ ArrayAt(h, idx).err = "none"
                /\ ElementRead(ArrayAt(h, idx)) = CollectionAt(h, "ARRAY").val[idx + 1]
          /\ (CollectionAt(h, "STRING").has /\ InRange(idx, CollectionAt(h, "STRING"))) =>
                /\ StringAt(h, idx).err = "none"
                /\ ElementRead(StringAt(h, idx)) =
                      IntV(CollectionAt(h, "STRING").val[idx + 1])

\* C34 amended: with a valid handle and an index within range the read
\* either hands back the element at the index or raises an error of the
\* encoding of the result: the reference limit (api_string_at, and
\* api_array_at for an element of a reference kind), or 'not scoped' for an
\* element of the Array that is an object the scope has not admitted.
C34_ElementOrEncodingError ==
    pc = "guest" =>
       \A h \in 0..MaxArrEntries, idx \in AtIndices :
          /\ ChecksBeforeRead(h, idx)
          /\ (CollectionAt(h, "ARRAY").has /\ InRange(idx, CollectionAt(h, "ARRAY"))) =>
                LET elem == CollectionAt(h, "ARRAY").val[idx + 1]
                IN  /\ ArrayAt(h, idx).err = "none" => ElementRead(ArrayAt(h, idx)) = elem
                    /\ ArrayAt(h, idx).err # "none" =>
                          \/ /\ ArrayAt(h, idx).err = "MaxRefs"
                             /\ elem.type \in RefKinds
                             /\ Len(state.scoped_variants) >= m_max_refs
                          \/ /\ ArrayAt(h, idx).err = "ObjectNotScoped"
                             /\ elem.type = "OBJECT"
                             /\ ~is_scoped_object(state, elem.val[1])
          /\ (CollectionAt(h, "STRING").has /\ InRange(idx, CollectionAt(h, "STRING"))) =>
                /\ StringAt(h, idx).err = "none" =>
                      ElementRead(StringAt(h, idx)) =
                         IntV(CollectionAt(h, "STRING").val[idx + 1])
                /\ StringAt(h, idx).err # "none" =>
                      /\ StringAt(h, idx).err = "MaxRefs"
                      /\ Len(state.scoped_variants) >= m_max_refs

\* C34 witness: the guest has read the second character of the String at
\* handle 1, and the scope holds its code point at the new handle 2
C34_Witness ==
    /\ pc = "guest"
    /\ last.op = "api_string_at" /\ last.err = "none"
    /\ last.hraw = {1} /\ last.res = 2
    /\ get_scoped_variant(state, 2).var = IntV(98)

\* a second witness: an index equal to the length has ended the call with
\* the out-of-bounds error
C34_WitnessOutOfBounds ==
    /\ last.op = "api_array_at" /\ last.err = "ArrayIndexOutOfBounds"
    /\ last.end = "exception"
    /\ \E h \in last.hraw :
          /\ Len(last.frame.args) > h
          /\ last.frame.args[h + 1].type = "ARRAY"

(* ---------------------------------------------------------------------- *)
(* Properties of the two ways to append to a String                        *)
(* ---------------------------------------------------------------------- *)
\* handle h of the current scope designates a String
IsString(h) ==
    get_scoped_variant(state, h).has /\ get_scoped_variant(state, h).var.type = "STRING"
\* String_Op::APPEND of the String at handle t to the String at handle h
AppendViaOps(h, t) == api_string_ops(state, "APPEND", h, 0, GV("STRING", t))
\* api_string_append of the same text to the String at handle h
AppendViaAppend(h, t) ==
    api_string_append(state, h, get_scoped_variant(state, t).var.val, "throws")

\* C35 as stated: for every String handle h and every text, here the text
\* of a String handle t, String_Op::APPEND and api_string_append raise
\* nothing and leave the scope in the same state, in which api_string_size(h)
\* has grown by the length of the text and the String at h ends with it.
C35_AsStated ==
    pc = "guest" =>
       \A h \in Handles, t \in Handles :
          (IsString(h) /\ IsString(t)) =>
             LET text == get_scoped_variant(state, t).var.val
                 before == get_scoped_variant(state, h).var.val
             IN  /\ AppendViaOps(h, t).err = "none"
                 /\ AppendViaAppend(h, t).err = "none"
                 /\ AppendViaOps(h, t).st = AppendViaAppend(h, t).st
                 /\ api_string_size(AppendViaOps(h, t).st, h).res = Len(before) + Len(text)
                 /\ get_scoped_variant(AppendViaOps(h, t).st, h).var.val = before \o text

\* what holds instead: api_string_append leaves the String at h with the
\* text appended, and String_Op::APPEND leaves the scope as it was
AppendOnlyViaAppend ==
    pc = "guest" =>
       \A h \in Handles, t \in Handles :
          (IsString(h) /\ IsString(t)) =>
             LET text == get_scoped_variant(state, t).var.val
                 before == get_scoped_variant(state, h).var.val
             IN  /\ AppendViaOps(h, t).err = "none"
                 /\ AppendViaOps(h, t).st = state
                 /\ AppendViaAppend(h, t).err = "none"
                 /\ get_scoped_variant(AppendViaAppend(h, t).st, h).var.val = before \o text

(* ---------------------------------------------------------------------- *)
(* Storing to and fetching from a packed array                             *)
(* ---------------------------------------------------------------------- *)
\* the element sequences the guest stores
PackedData == {<<>>, <<1>>, <<1, 2>>}
\* the kinds api_vstore has a case for
StoreTypes == {"PACKED_BYTE_ARRAY", "PACKED_FLOAT32_ARRAY", "PACKED_FLOAT64_ARRAY"}
\* the kinds api_vfetch has a case for
FetchTypes ==
    {"STRING", "STRING_NAME", "NODE_PATH"} \cup PackedTypes
    \cup {"PACKED_VECTOR2_ARRAY", "PACKED_VECTOR3_ARRAY"}

\* the result of api_vfetch: the result of a handler (see R) and the
\* elements copied into the guest's vector
Fetched(s, err, data) ==
    [st |-> s, err |-> err, res |-> -1, hnds |-> {}, objs |-> {}, touched |-> {},
     data |-> data]

\* api_vstore: resizes and fills 'arr', the packed array that the conversion
\* operator of the Variant returned; aliased: whether writing to that array
\* writes to the array of the scoped Variant (the engine decides)
api_vstore(s, index, data, aliased) ==
    LET opt == get_scoped_variant(s, index)
    IN  IF ~opt.has THEN Fail(s, "VstoreNotScoped")
        ELSE IF opt.var.type \notin StoreTypes THEN Fail(s, "VstoreUnsupportedType")
        ELSE IF aliased
        THEN R(AssignVariant(s, index, [type |-> opt.var.type, val |-> data]),
               "none", -1, {}, {}, {})
        ELSE R(s, "none", -1, {}, {}, {})

\* api_vfetch: copies a String or the elements of a packed array into guest
\* memory
api_vfetch(s, index, method) ==
    LET opt == get_scoped_variant(s, index)
    IN  IF ~opt.has THEN Fetched(s, "VfetchNotScoped", <<>>)
        ELSE IF opt.var.type \notin FetchTypes
        THEN Fetched(s, "VfetchUnsupportedType", <<>>)
        ELSE IF opt.var.type \in {"STRING", "STRING_NAME", "NODE_PATH"} /\ method \notin {0, 2}
        THEN Fetched(s, "VfetchUnsupportedMethod", <<>>)
        ELSE Fetched(s, "none", opt.var.val)

SysVcreatePacked ==
    /\ pc = "guest"
    /\ \E type \in PackedTypes \cup {"STRING"} :
          HandledUpTo(MaxArrEntries, "api_vcreate",
                      api_vcreate(state, type, 0, NoData, m_max_refs), Raw(type, {}, {}))

SysVstore ==
    /\ pc = "guest"
    /\ \E index \in 0..MaxArrEntries, data \in PackedData, aliased \in BOOLEAN :
          HandledUpTo(MaxArrEntries, "api_vstore", api_vstore(state, index, data, aliased),
                      Raw(IF aliased THEN "aliased" ELSE "copy", {}, {index}))

SysVfetch ==
    /\ pc = "guest"
    /\ \E index \in 0..MaxArrEntries, method \in {0, 1} :
          HandledUpTo(MaxArrEntries, "api_vfetch", api_vfetch(state, index, method),
                      Raw("", {}, {index}))

NextPacked ==
    \/ VmCall(MaxCalls) /\ UNCHANGED aside
    \/ SysVcreatePacked /\ UNCHANGED aside
    \/ SysVstore /\ UNCHANGED aside
    \/ SysVfetch /\ UNCHANGED aside
    \/ GuestReturn /\ UNCHANGED aside
    \/ Timeout /\ UNCHANGED aside

SpecPacked == InitArr /\ [][NextPacked]_vars

(* ---------------------------------------------------------------------- *)
(* Properties of store and fetch                                           *)
(* ---------------------------------------------------------------------- *)
\* handle h of the current scope designates a packed array that api_vcreate
\* can create
IsPacked(h) ==
    get_scoped_variant(state, h).has /\ get_scoped_variant(state, h).var.type \in PackedTypes
\* api_vstore(h, data) in the current scope, then api_vfetch(h)
StoreThenFetch(h, data, aliased) ==
    api_vfetch(api_vstore(state, h, data, aliased).st, h, 0)

\* C36 as stated: for every handle h of a packed array of one of the five
\* kinds and all data, api_vstore(h, data) raises nothing and the
\* api_vfetch(h) that follows delivers exactly the stored elements.
C36_AsStated ==
    pc = "guest" =>
       \A h \in 0..MaxArrEntries, data \in PackedData, aliased \in BOOLEAN :
          IsPacked(h) =>
             /\ api_vstore(state, h, data, aliased).err = "none"
             /\ StoreThenFetch(h, data, aliased).err = "none"
             /\ StoreThenFetch(h, data, aliased).data = data

\* what holds instead: api_vstore raises an error for the two integer kinds
\* and changes no scope; for the other kinds the fetch delivers the stored
\* elements only if the array api_vstore wrote to is the Variant's own
StoreRejectsIntegers ==
    pc = "guest" =>
       \A h \in 0..MaxArrEntries, data \in PackedData, aliased \in BOOLEAN :
          IsPacked(h) =>
             IF get_scoped_variant(state, h).var.type \in StoreTypes
             THEN /\ api_vstore(state, h, data, aliased).err = "none"
                  /\ StoreThenFetch(h, data, aliased).data =
                        (IF aliased THEN data ELSE get_scoped_variant(state, h).var.val)
             ELSE /\ api_vstore(state, h, data, aliased).err = "VstoreUnsupportedType"
                  /\ api_vstore(state, h, data, aliased).st = state

(* ---------------------------------------------------------------------- *)
(* Properties of Dictionary_Op::GET                                        *)
(* ---------------------------------------------------------------------- *)
\* handle h of the current scope designates a Dictionary
IsDictionary(h) ==
    get_scoped_variant(state, h).has
    /\ get_scoped_variant(state, h).var.type = "DICTIONARY"
\* the scope after Dictionary_Op::GET of key k on handle h
AfterGet(h, k) == api_dict_ops(state, "GET", h, k, GV("NIL", 0), m_max_refs).st
\* what HAS of key k and GET_SIZE read on handle h in scope s
HasIn(s, h, k) == api_dict_ops(s, "HAS", h, k, GV("NIL", 0), m_max_refs).res
SizeIn(s, h) == api_dict_ops(s, "GET_SIZE", h, GV("INT", 0), GV("NIL", 0), m_max_refs).res

\* C37 as stated: for every Dictionary handle h and every key k that is
\* missing from the Dictionary, GET(k) leaves the Dictionary unchanged:
\* GET_SIZE and HAS(k) read the same after the GET as before it.
C37_AsStated ==
    pc = "guest" =>
       \A h \in 0..MaxArrEntries, k \in DictKeys :
          (IsDictionary(h) /\ HasIn(state, h, k) = 0) =>
             /\ get_scoped_variant(AfterGet(h, k), h).var = get_scoped_variant(state, h).var
             /\ SizeIn(AfterGet(h, k), h) = SizeIn(state, h)
             /\ HasIn(AfterGet(h, k), h, k) = HasIn(state, h, k)

\* what holds instead: GET of a missing key adds the key with an empty
\* value, and GET of a key that is present changes nothing
GetInsertsMissingKey ==
    pc = "guest" =>
       \A h \in 0..MaxArrEntries, k \in DictKeys :
          IsDictionary(h) =>
             IF HasIn(state, h, k) = 0
             THEN /\ SizeIn(AfterGet(h, k), h) = SizeIn(state, h) + 1
                  /\ HasIn(AfterGet(h, k), h, k) = 1
             ELSE get_scoped_variant(AfterGet(h, k), h).var = get_scoped_variant(state, h).var

(* ---------------------------------------------------------------------- *)
(* Profiling: the hotspots that get_hotspots computes                      *)
(* ---------------------------------------------------------------------- *)
\* the sampled addresses and the cap on the samples of one address
NumPcs == 3
MaxCount == 2
Pcs == 1..NumPcs
\* what resolve() can yield for an address: a function name and a file
\* name, as code points; the first two pairs concatenate to the same text
Resolved == {<<<<1>>, <<2, 3>>>>, <<<<1, 2>>, <<3>>>>, <<<<1>>, <<3>>>>}
Resolutions == [Pcs -> Resolved]
\* the values of 'total' the caller passes
Totals == 0..(NumPcs + 1)

\* the addresses with samples, and the orders in which the iteration over
\* the unordered maps can visit them
Sampled(visited) == {p \in Pcs : visited[p] > 0}
Orders(S) ==
    {o \in [1..Cardinality(S) -> S] : \A i, j \in DOMAIN o : o[i] = o[j] => i = j}

\* the vector 'results' after the loop over 'visited'
Gathered(visited, resolved, order) ==
    [i \in DOMAIN order |->
        [pc |-> order[i], count |-> visited[order[i]], line |-> 0,
         function |-> resolved[order[i]][1], file |-> resolved[order[i]][2]]]

RECURSIVE SumCounts(_, _)
SumCounts(results, n) ==
    IF n = 0 THEN 0 ELSE SumCounts(results, n - 1) + results[n].count

\* the key of the deduplication: function + file
DedupKey(res) == res.function \o res.file

\* a deduplication that zeroes the later entries of a key without adding
\* their counts to the first
RECURSIVE Deduplicate_no_sum(_, _, _)
Deduplicate_no_sum(results, dedup, i) ==
    IF i > Len(results) THEN [results |-> results, dedup |-> dedup]
    ELSE IF \E e \in dedup : e[1] = DedupKey(results[i])
    THEN Deduplicate_no_sum([results EXCEPT ![i].count = 0], dedup, i + 1)
    ELSE Deduplicate_no_sum(results, dedup \cup {<<DedupKey(results[i]), i>>}, i + 1)

\* the deduplication loop from entry i on; dedup: the HashMap from key to
\* index, as pairs
RECURSIVE Deduplicate(_, _, _)
Deduplicate(results, dedup, i) ==
    IF i > Len(results) THEN [results |-> results, dedup |-> dedup]
    ELSE IF \E e \in dedup : e[1] = DedupKey(results[i])
    THEN LET index == (CHOOSE e \in dedup : e[1] = DedupKey(results[i]))[2]
         IN  Deduplicate([results EXCEPT ![index].count = @ + results[i].count,
                                         ![i].count = 0],
                         dedup, i + 1)
    ELSE Deduplicate(results, dedup \cup {<<DedupKey(results[i]), i>>}, i + 1)

\* std::partial_sort with the comparison a.count > b.count: every
\* arrangement of the entries whose first 'middle' entries are the greatest,
\* in non-increasing order
partial_sort(results, middle) ==
    {[i \in DOMAIN results |-> results[o[i]]] : o \in
        {o \in Orders(DOMAIN results) :
            /\ \A i, j \in 1..middle : i < j => results[o[i]].count >= results[o[j]].count
            /\ \A i \in 1..middle, j \in (middle + 1)..Len(results) :
                  results[o[i]].count >= results[o[j]].count}}

\* the loop that pops the zero-count entries off the back
RECURSIVE TrimZeroes(_)
TrimZeroes(results) ==
    IF results # <<>> /\ results[Len(results)].count = 0
    THEN TrimZeroes(SubSeq(results, 1, Len(results) - 1))
    ELSE results

Min(a, b) == IF a < b THEN a ELSE b

\* the Array get_hotspots returns for a sorted vector: a Dictionary for each
\* entry left, then the statistics
Assembled(sorted, total, dedup, total_measurements) ==
    LET results == TrimZeroes(SubSeq(sorted, 1, total))
    IN  [i \in 1..Len(results) |->
            [function |-> results[i].function, file |-> results[i].file,
             line |-> results[i].line, count |-> results[i].count]]
        \o <<[functions |-> Cardinality(dedup), measurements |-> total_measurements]>>

\* Sandbox::get_hotspots on a copy of the profiling data: the Arrays it can
\* return; resolved: what resolve() yields for each address; order: the
\* iteration order of the maps
HotspotArrays(visited, resolved, order, total) ==
    LET results == Gathered(visited, resolved, order)
        d == Deduplicate(results, {}, 1)
        n == Min(total, Len(results))
    IN  {Assembled(sorted, n, d.dedup, SumCounts(results, Len(results))) :
            sorted \in partial_sort(d.results, n)}

\* Sandbox::is_in_vmcall: a guest call is in progress, the current state is
\* not the permanent state of level 0
is_in_vmcall == m_current_state # 0

\* a running call records a sample at an address
SampleAt ==
    /\ m_profiling_data.has
    /\ \E p \in Pcs :
          /\ m_profiling_data.visited[p] < MaxCount
          /\ m_profiling_data' = [m_profiling_data EXCEPT !.visited[p] = @ + 1]
    /\ UNCHANGED <<profiling_mutex, generate_hotspots_mutex, m_local_profiling_data,
                   profilers>>

\* what profiling function op has handed to its caller: the Array, if any,
\* and the error it has printed ("none" if none)
Returned(op, has, hotspots, err) ==
    [op |-> op, has |-> has, hotspots |-> hotspots, err |-> err]
Returns(ret) == profilers' = [profilers EXCEPT ![1].pc = "returned", ![1].result = ret]

\* Sandbox::get_hotspots from start to end, with no other thread; the
\* caller then holds the Array
GetHotspots ==
    /\ profilers[1].pc = "idle"
    /\ \E resolved \in Resolutions, total \in Totals :
          IF ~m_profiling_data.has
          THEN Returns(Returned("get_hotspots", TRUE, <<>>, "ProfilingNotEnabled"))
          ELSE \E order \in Orders(Sampled(m_profiling_data.visited)) :
                  \E array \in HotspotArrays(m_profiling_data.visited, resolved, order, total) :
                     Returns(Returned("get_hotspots", TRUE, array, "none"))
    /\ UNCHANGED <<profiling_mutex, generate_hotspots_mutex, m_profiling_data,
                   m_local_profiling_data>>

\* the caller of a profiling function goes on and drops what it was handed
HotspotsDropped ==
    /\ profilers[1].pc = "returned"
    /\ profilers' = [profilers EXCEPT ![1].pc = "idle", ![1].result = NoResult]
    /\ UNCHANGED <<profiling_mutex, generate_hotspots_mutex, m_profiling_data,
                   m_local_profiling_data>>

\* Sandbox::clear_hotspots from start to end, with no other thread
ClearHotspots ==
    /\ profilers[1].pc = "idle"
    /\ IF ~m_profiling_data.has
       THEN /\ Returns(Returned("clear_hotspots", FALSE, <<>>, "ProfilingNotEnabled"))
            /\ UNCHANGED m_profiling_data
       ELSE /\ Returns(Returned("clear_hotspots", FALSE, <<>>, "none"))
            /\ m_profiling_data' = [m_profiling_data EXCEPT !.visited = [p \in Pcs |-> 0]]
    /\ UNCHANGED <<profiling_mutex, generate_hotspots_mutex, m_local_profiling_data>>

\* an enable_profiling(false) that does not look at is_in_vmcall
disable_profiling_unchecked(in_vmcall) ==
    /\ Returns(Returned("enable_profiling", FALSE, <<>>, "none"))
    /\ m_local_profiling_data' = [has |-> FALSE, profiling_interval |-> 0]

\* Sandbox::enable_profiling(false): refused during a call, else the data
\* of the instance is dropped
disable_profiling(in_vmcall) ==
    IF in_vmcall
    THEN /\ Returns(Returned("enable_profiling", FALSE, <<>>, "CannotDisableProfiling"))
         /\ UNCHANGED m_local_profiling_data
    ELSE /\ Returns(Returned("enable_profiling", FALSE, <<>>, "none"))
         /\ m_local_profiling_data' = [has |-> FALSE, profiling_interval |-> 0]

\* enable_profiling(false) from start to end
DisableProfiling ==
    /\ profilers[1].pc = "idle"
    /\ disable_profiling(is_in_vmcall)
    /\ UNCHANGED <<profiling_mutex, generate_hotspots_mutex, m_profiling_data>>

\* enable_profiling(true) from start to end: the data of the instance is
\* created if there is none, the interval is set, and the shared data is
\* created if there is none
ProfilingEnabled ==
    /\ profilers[1].pc = "idle"
    /\ ~m_profiling_data.has \/ ~m_local_profiling_data.has
    /\ m_profiling_data' = IF m_profiling_data.has THEN m_profiling_data
                           ELSE [has |-> TRUE, visited |-> [p \in Pcs |-> 0]]
    /\ m_local_profiling_data' = [has |-> TRUE, profiling_interval |-> 1000]
    /\ UNCHANGED <<profiling_mutex, generate_hotspots_mutex, profilers>>

NextHotspots ==
    \/ ProfilingEnabled /\ ProfilingFrame
    \/ SampleAt /\ ProfilingFrame
    \/ GetHotspots /\ ProfilingFrame
    \/ HotspotsDropped /\ ProfilingFrame
    \/ ClearHotspots /\ ProfilingFrame

SpecHotspots == InitProfiling /\ [][NextHotspots]_vars

(* ---------------------------------------------------------------------- *)
(* Properties of the hotspots                                              *)
(* ---------------------------------------------------------------------- *)
\* the sum of the samples of the addresses in S
RECURSIVE SamplesOf(_, _)
SamplesOf(S, visited) ==
    IF S = {} THEN 0
    ELSE LET p == CHOOSE p \in S : TRUE
         IN  visited[p] + SamplesOf(S \ {p}, visited)
\* the key that an address resolves to
KeyOf(resolved, p) == resolved[p][1] \o resolved[p][2]

\* the Array is some hotspot entries followed by one statistics entry
WellFormed(array) ==
    /\ Len(array) >= 1
    /\ DOMAIN array[Len(array)] = {"functions", "measurements"}
    /\ \A i \in 1..(Len(array) - 1) : DOMAIN array[i] = {"function", "file", "line", "count"}

\* the hotspot entries of the Array: counts that do not increase and are
\* not 0, and pairwise different keys
OrderedDistinct(array) ==
    \A i, j \in 1..(Len(array) - 1) :
       /\ array[i].count # 0
       /\ i < j => array[i].count >= array[j].count
       /\ i # j => DedupKey(array[i]) # DedupKey(array[j])

\* C38: whenever get_hotspots can be called on profiling data, for every
\* resolution of the addresses, every iteration order and every total >= 0,
\* every Array it can return is at most total hotspot entries followed by
\* one statistics entry; the counts of the hotspot entries do not increase,
\* none is 0, no two entries have the same key function + file, the count of
\* an entry is the sum of the samples of the addresses that resolve to its
\* key, and the statistics entry holds the number of distinct keys and the
\* sum of all samples. And the Array that a call has returned is of this
\* form, with the sum of the samples of the data in its statistics entry.
C38_Hotspots ==
    /\ []((m_profiling_data.has /\ profilers[1].pc = "idle") =>
            \A resolved \in Resolutions, total \in Totals,
               order \in Orders(Sampled(m_profiling_data.visited)) :
               \A array \in HotspotArrays(m_profiling_data.visited, resolved, order, total) :
                  LET visited == m_profiling_data.visited
                      n == Len(array) - 1
                  IN  /\ WellFormed(array)
                      /\ n <= total
                      /\ OrderedDistinct(array)
                      /\ \A i \in 1..n :
                            array[i].count =
                               SamplesOf({p \in Sampled(visited) :
                                            KeyOf(resolved, p) = DedupKey(array[i])}, visited)
                      /\ array[n + 1].functions =
                            Cardinality({KeyOf(resolved, p) : p \in Sampled(visited)})
                      /\ array[n + 1].measurements = SamplesOf(Sampled(visited), visited))
    /\ [][(m_profiling_data.has /\ profilers[1].pc = "idle"
           /\ profilers'[1].pc = "returned" /\ profilers'[1].result.has) =>
             LET array == profilers'[1].result.hotspots
             IN  /\ WellFormed(array)
                 /\ OrderedDistinct(array)
                 /\ array[Len(array)].measurements =
                       SamplesOf(Sampled(m_profiling_data.visited), m_profiling_data.visited)
                 /\ array[Len(array)].functions >= Len(array) - 1]_vars

\* C38 witness: get_hotspots has returned two hotspot entries, the first
\* with the 3 samples of two addresses that resolved to the same key, and
\* the statistics of 2 keys and 4 samples
C38_Witness ==
    /\ profilers[1].pc = "returned"
    /\ profilers[1].result.has
    /\ Len(profilers[1].result.hotspots) = 3
    /\ profilers[1].result.hotspots[1].count = 3
    /\ profilers[1].result.hotspots[2].count = 1
    /\ profilers[1].result.hotspots[3] = [functions |-> 2, measurements |-> 4]
    /\ m_profiling_data.has
    /\ \E p, q \in Pcs : p # q /\ m_profiling_data.visited[p] + m_profiling_data.visited[q] = 3

(* ---------------------------------------------------------------------- *)
(* Profiling functions during and between calls                            *)
(* ---------------------------------------------------------------------- *)
\* the profiling functions leave the call-state stack alone, and a call
\* leaves the profiling data alone
NextProfilingCalls ==
    \/ VmCall(MaxCallsDeep) /\ UNCHANGED aside
    \/ SysStringCreate /\ UNCHANGED aside
    \/ GuestReturn /\ UNCHANGED aside
    \/ ProfilingEnabled /\ ProfilingFrame
    \/ GetHotspots /\ ProfilingFrame
    \/ HotspotsDropped /\ ProfilingFrame
    \/ ClearHotspots /\ ProfilingFrame
    \/ DisableProfiling /\ ProfilingFrame

SpecProfilingCalls == InitProfiling /\ [][NextProfilingCalls]_vars

\* the step is a whole call of profiling function op
ProfilingCall(op) ==
    /\ profilers[1].pc = "idle"
    /\ profilers'[1].pc = "returned"
    /\ profilers'[1].result.op = op
\* the error that the call of this step has printed
Printed == profilers'[1].result.err
ProfilingData == <<m_profiling_data, m_local_profiling_data>>

\* C39: an enable_profiling(false) with a call in progress prints its error
\* and leaves the profiling data and the call as they were; with no call in
\* progress it prints nothing and leaves the instance without profiling
\* data. A get_hotspots or clear_hotspots with no shared profiling data
\* prints the 'not enabled' error and changes no profiling data, and
\* get_hotspots returns an empty Array; with shared data they print nothing.
\* So no step with a call in progress takes the profiling data of the
\* instance away.
C39_ProfilingRefusals ==
    [][/\ ProfilingCall("enable_profiling") =>
             IF is_in_vmcall
             THEN /\ Printed = "CannotDisableProfiling"
                  /\ UNCHANGED ProfilingData
                  /\ UNCHANGED core
             ELSE /\ Printed = "none"
                  /\ ~m_local_profiling_data'.has
                  /\ UNCHANGED m_profiling_data
       /\ (ProfilingCall("get_hotspots") \/ ProfilingCall("clear_hotspots")) =>
             IF ~m_profiling_data.has
             THEN /\ Printed = "ProfilingNotEnabled"
                  /\ UNCHANGED ProfilingData
                  /\ ProfilingCall("get_hotspots") =>
                        profilers'[1].result.has /\ profilers'[1].result.hotspots = <<>>
             ELSE Printed = "none"
       /\ (is_in_vmcall /\ m_local_profiling_data.has) => m_local_profiling_data'.has]_vars

\* C39 witness: during a call of an instance with profiling enabled,
\* enable_profiling(false) has been refused; the data is still there
C39_Witness ==
    /\ pc = "guest"
    /\ is_in_vmcall
    /\ profilers[1].pc = "returned"
    /\ profilers[1].result.err = "CannotDisableProfiling"
    /\ m_local_profiling_data.has
    /\ m_local_profiling_data.profiling_interval = 1000

\* a second witness: get_hotspots with no profiling data has returned an
\* empty Array
C39_WitnessNotEnabled ==
    /\ profilers[1].pc = "returned"
    /\ profilers[1].result = Returned("get_hotspots", TRUE, <<>>, "ProfilingNotEnabled")
    /\ ~m_profiling_data.has

(* ---------------------------------------------------------------------- *)
(* The reference limit                                                     *)
(* ---------------------------------------------------------------------- *)
\* the limits a host passes to set_max_refs
MaxRefsArgs == 0..MaxRefs

\* the host sets the reference limit between two calls
HostSetsMaxRefs ==
    /\ pc = "host"
    /\ \E max \in MaxRefsArgs :
          /\ Sandbox_config_call("set_max_refs", max)
          /\ last' = Last("set_max_refs", "none", "", NoR, NoRaw, IntV(max), NoFrame)
    /\ UNCHANGED <<m_level, m_current_state, m_states, m_tree_base, m_calls_made,
                   pc, frames>>
    /\ UNCHANGED <<stats, multi, profiling>>

NextRefs ==
    \/ VmCall(MaxCalls + 1) /\ UNCHANGED aside
    \/ SysStringCreate /\ UNCHANGED aside
    \/ SysStringSize /\ UNCHANGED aside
    \/ GuestReturn /\ UNCHANGED aside
    \/ Timeout /\ UNCHANGED aside
    \/ HostSetsMaxRefs

\* level 0 holds what the program has created in main()
SpecRefs == Init /\ [][NextRefs]_vars

\* the number of owned values in the scope of level l
Owned(l) == Len(m_states[l].variants)
\* the step has added an owned value to the scope of level l
Grows(l) == Len(m_states'[l].variants) > Len(m_states[l].variants)
\* every pointer of a scope into its own values points at one of them
NoDangling(s) ==
    \A i \in 1..Len(s.scoped_variants) :
       s.scoped_variants[i].own => s.scoped_variants[i].at \in 1..Len(s.variants)

C32_WitnessLowered ==
    /\ last.op = "set_max_refs"
    /\ Owned(0) > m_max_refs

====
